---------------------------- MODULE Spec2Model ----------------------------
(***************************************************************************)
(* A model of negativa-ml: the fat-binary parser (locator/gpu_code.rs),    *)
(* the kernel locator (locator/locator.rs), the ELF reader (elf/elf.rs),   *)
(* the tracer (tracer/tracer.rs) and the reconstructor                     *)
(* (reconstructor/reconstructor.rs).  Each part has its own variables and  *)
(* its own specifications; the variable dom names the one that runs.       *)
(*                                                                         *)
(* The locator pipeline is the call chain of main.rs `locate`:             *)
(*   GPUCode::new  ->  extract_all_cubins  ->  the loops of                *)
(*   KernelLocator::new  ->  locate_deletable_file_spans.                  *)
(* The bytes of the GPU code section are an input.  The parser only ever   *)
(* looks at the headers under its cursors, so the model draws the fields   *)
(* of a header when the parser reads it.  All the layout values are        *)
(* multiples of 16 and an element advances the cursor by 0 or by at least  *)
(* 32 bytes, so no two header reads overlap and every run of the model is  *)
(* the parse of some byte blob.                                            *)
(***************************************************************************)
EXTENDS Integers, Sequences, FiniteSets, TLC

VARIABLES
    dom,              \* which input domain is explored: "select" or "layout"
    pc,               \* position in the locator pipeline
    so_path,          \* KernelLocator.so_path
    gpu_code_start_offset, \* file offset of the GPU code section
    gpu_code_len,     \* gpu_code_data.len()
    offset,           \* GPUCode::new: the region cursor
    header,           \* Region::new: the header of the region being parsed
    element_offset,   \* Region::new: the element cursor (relative to the region)
    elements,         \* Region::new: the elements parsed so far
    regions,          \* GPUCode.regions
    cubin_paths,      \* the cubin files collected by extract_all_cubins
    element_span,     \* KernelLocator.element_span
    element_kernels,  \* KernelLocator.element_kernels
    cubin_dump,       \* what extract_cubin_kernels returned for each cubin file
    query,            \* the arguments and results of the last locate query
    elf,              \* the ELF reader (see the ELF section)
    procs,            \* tracer: the traced processes, by pid
    threads,          \* tracer: the supervisor threads, by the pid they trace
    chan,             \* tracer: the messages in the channel, oldest first
    sent,             \* tracer: every message ever sent, with its sender
    collector,        \* tracer: the thread that runs Tracer::trace
    requests,         \* tracer: the ptrace requests made for a pid another thread traces
    extractor,        \* a call of extract_cubin_kernels
    recon             \* the reconstructor and the files it works on

tracer_vars == <<procs, threads, chan, sent, collector, requests>>

vars == <<dom, pc, so_path, gpu_code_start_offset, gpu_code_len, offset, header,
          element_offset, elements, regions, cubin_paths, element_span,
          element_kernels, cubin_dump, query, elf, tracer_vars, extractor, recon>>

locator_vars == <<dom, pc, so_path, gpu_code_start_offset, gpu_code_len, offset,
                  header, element_offset, elements, regions, cubin_paths,
                  element_span, element_kernels, cubin_dump, query>>

\* what the locator pipeline leaves alone
not_locator == <<elf, tracer_vars, extractor, recon>>

\* what the ELF reader leaves alone
not_elf == <<locator_vars, tracer_vars, extractor, recon>>

-----------------------------------------------------------------------------
(* Bounds of the model *)

MaxRegions == 2     \* regions parsed from one blob
MaxElements == 2    \* elements parsed from one blob ("select" domain)
MaxLayoutElements == 3  \* elements parsed from one blob ("layout" domain)
MaxLines == 2       \* lines the disassembler prints on bulk extraction

(* Program constants *)

RegionHeaderSize == 16   \* RegionHeader::size()
ElementHeaderEnd == 32   \* the last header byte read is element_offset + 31
CubinFileType == 2       \* file_type of a cubin element

CUBLAS_INTERNAL_CONSTANT == "_ZN6cublas8internal15deviceConstantsE"

NoQuery == [asked |-> FALSE]

-----------------------------------------------------------------------------
(* Input domains.  "select" varies what the selection reads (file type,      *)
(* capability, kernel sets, used kernels, target) over well-formed layouts; *)
(* "layout" varies the layout fields the parser and the span computation   *)
(* read (header_size, fat_size, offset, size, blob length).                *)

SoPaths(d) ==
    IF d = "select" THEN {"/usr/lib/libcublas.so.11", "/usr/lib/libdemo.so"}
    ELSE {"/usr/lib/libdemo.so"}

\* so_path.contains("libcublas"), tabulated over SoPaths
ContainsLibcublas(path) == path = "/usr/lib/libcublas.so.11"

StartOffsets(d) == IF d = "select" THEN {4096} ELSE {0, 4096}

BlobLens(d) ==
    IF d = "select"
    THEN {16 + 48 * MaxElements, 16 * MaxRegions + 48 * MaxElements}
    ELSE {16 * k : k \in 1..(MaxRegions + 2 * MaxLayoutElements)}

HeaderSizes(d) == IF d = "select" THEN {16} ELSE {16, 32}

FatSizes(d) ==
    IF d = "select" THEN {48 * k : k \in 1..MaxElements}
    ELSE {0, 16, 48, 96}

FileTypes(d) == IF d = "select" THEN {1, 2} ELSE {2}

ElemOffsets(d) == IF d = "select" THEN {32} ELSE {0, 32}

ElemSizes(d) == IF d = "select" THEN {16} ELSE {0, 32}

Capabilities(d) == IF d = "select" THEN {0, 70, 75} ELSE {70}

KernelSets(d) ==
    IF d = "select" THEN {{}, {"k1"}, {CUBLAS_INTERNAL_CONSTANT}}
    ELSE {{}}

UsedKernels(d) == IF d = "select" THEN {{}, {"k1"}} ELSE {{}}

Targets(d) == IF d = "select" THEN {69, 70, 80} ELSE {70}

LineKinds(d) ==
    IF d = "select" THEN {"file", "nofile", "noshape"} ELSE {"file"}

ElementBound(d) == IF d = "select" THEN MaxElements ELSE MaxLayoutElements

ElementHeaders(d) ==
    [file_type : FileTypes(d), offset : ElemOffsets(d),
     size : ElemSizes(d), capability : Capabilities(d)]

-----------------------------------------------------------------------------
(* Helpers *)

RECURSIVE SumSeq(_)
SumSeq(s) == IF s = <<>> THEN 0 ELSE s[1] + SumSeq(Tail(s))

RECURSIVE Flatten(_)
Flatten(ss) == IF ss = <<>> THEN <<>> ELSE ss[1] \o Flatten(Tail(ss))

SetMax(S) == CHOOSE m \in S : \A x \in S : x <= m

\* all elements parsed so far, finished regions first
ParsedCount == Len(Flatten([i \in 1..Len(regions) |-> regions[i].elements]))
               + Len(elements)

-----------------------------------------------------------------------------
(* GPUCode::new and Region::new *)

\* Region::size
RegionSize(region) == region.header.fat_size + RegionHeaderSize

\* One turn of the `while offset < gpu_code_data.len()` loop of GPUCode::new,
\* up to the element loop of Region::new: either the loop ends and
\* GPUCode::new returns, or Region::new slices the blob at `offset` and reads
\* the region header (a slice index out of range panics).
GpuCodeLoop ==
    /\ pc = "gpu_code"
    /\ IF offset < gpu_code_len
       THEN IF gpu_code_len - offset < RegionHeaderSize
            THEN /\ pc' = "panic"
                 /\ UNCHANGED <<header, element_offset, elements>>
            ELSE /\ Len(regions) < MaxRegions
                 /\ \E hs \in HeaderSizes(dom), fs \in FatSizes(dom) :
                        header' = [header_size |-> hs, fat_size |-> fs]
                 /\ element_offset' = 16
                 /\ elements' = <<>>
                 /\ pc' = "region"
       ELSE /\ pc' = "extract"
            /\ UNCHANGED <<header, element_offset, elements>>
    /\ UNCHANGED <<dom, so_path, gpu_code_start_offset, gpu_code_len, offset,
                   regions, cubin_paths, element_span, element_kernels,
                   cubin_dump, query, not_locator>>

\* The header the parser reads at the element cursor.  An element that
\* advanced the cursor by 0 is read again: the same bytes, the same header.
ReadableHeaders ==
    IF elements # <<>> /\ elements[Len(elements)].header.offset
                          + elements[Len(elements)].header.size = 0
    THEN {elements[Len(elements)].header}
    ELSE ElementHeaders(dom)

\* One turn of the `while element_offset < header.fat_size` loop of
\* Region::new: an element header is read and the cursor advances, or the loop
\* ends, Region::new returns and GPUCode::new pushes the region and advances
\* its own cursor by region.size().
RegionLoop ==
    /\ pc = "region"
    /\ IF element_offset < header.fat_size
       THEN IF gpu_code_len - offset < element_offset + ElementHeaderEnd
            THEN /\ pc' = "panic"
                 /\ UNCHANGED <<element_offset, elements, regions, offset>>
            ELSE /\ ParsedCount < ElementBound(dom)
                 /\ \E element_header \in ReadableHeaders :
                       /\ element_offset' = element_header.offset + element_offset
                                            + element_header.size
                       /\ elements' = Append(elements, [header |-> element_header])
                 /\ UNCHANGED <<pc, regions, offset>>
       ELSE /\ regions' = Append(regions, [header |-> header, elements |-> elements])
            /\ offset' = offset + RegionSize([header |-> header, elements |-> elements])
            /\ pc' = "gpu_code"
            /\ UNCHANGED <<element_offset, elements>>
    /\ UNCHANGED <<dom, so_path, gpu_code_start_offset, gpu_code_len, header,
                   cubin_paths, element_span, element_kernels, cubin_dump,
                   query, not_locator>>

-----------------------------------------------------------------------------
(* KernelLocator::extract_all_cubins *)

\* The cubin files collected from the disassembler's lines, in emission
\* order.  A cubin file is named by the number of the line that announced it.
\* "file": `Extracting ELF file N: <filename>` and the file exists;
\* "nofile": the same shape, but path.is_file() is false;
\* "noshape": a line without ':' (ele[1] is out of range).
RECURSIVE CollectCubins(_, _)
CollectCubins(lines, k) ==
    IF k > Len(lines) THEN <<>>
    ELSE (IF lines[k] = "file" THEN <<k>> ELSE <<>>) \o CollectCubins(lines, k + 1)

\* extract_all_cubins: every line is split at ':' and ele[1] indexed (a panic
\* on a line without ':'), then the exit status is checked (a panic when the
\* disassembler failed).
ExtractAllCubins ==
    /\ pc = "extract"
    /\ \E n \in 0..MaxLines : \E lines \in [1..n -> LineKinds(dom)] :
       \E exit_success \in BOOLEAN :
          IF (\E k \in 1..n : lines[k] = "noshape") \/ ~exit_success
          THEN /\ pc' = "panic"
               /\ UNCHANGED cubin_paths
          ELSE /\ cubin_paths' = CollectCubins(lines, 1)
               /\ pc' = "new"
    /\ UNCHANGED <<dom, so_path, gpu_code_start_offset, gpu_code_len, offset,
                   header, element_offset, elements, regions, element_span,
                   element_kernels, cubin_dump, query, not_locator>>

-----------------------------------------------------------------------------
(* The loops of KernelLocator::new *)

\* locator.rs 66-69: the start of an element's span
SpanStart(element, inner_offset, region_offset, region) ==
    element.header.offset + inner_offset + region_offset
    + region.header.header_size

\* locator.rs 70
SpanEnd(start, element) == start + element.header.size

\* A variant that advances past the element's header part only.
InnerAdvance_OffsetOnly(element) == element.header.offset

\* locator.rs 72: the advance of inner_offset past an element
InnerAdvance(element) == element.header.offset + element.header.size

\* The element loop of one region.  acc carries spans, kernels, inner_offset,
\* cubin_path_index, the cubins dumped so far, and ok (FALSE once
\* cubin_paths[cubin_path_index] is out of range, which panics).
\* dump[c] is what extract_cubin_kernels returns for cubin file c.
RECURSIVE NewElementLoop(_, _, _, _, _)
NewElementLoop(region, region_offset, dump, element_idx, acc) ==
    IF ~acc.ok \/ element_idx > Len(region.elements) THEN acc
    ELSE LET element == region.elements[element_idx]
             start == SpanStart(element, acc.inner_offset, region_offset, region)
             end == SpanEnd(start, element)
             a1 == [acc EXCEPT !.spans = Append(@, [start |-> start, end |-> end]),
                               !.inner_offset = @ + InnerAdvance(element)]
         IN  IF element.header.file_type # CubinFileType
             THEN NewElementLoop(region, region_offset, dump, element_idx + 1,
                                 [a1 EXCEPT !.kernels = Append(@, {})])
             ELSE IF acc.cubin_path_index >= Len(cubin_paths)
                  THEN [a1 EXCEPT !.ok = FALSE]
                  ELSE LET cubin_path == cubin_paths[acc.cubin_path_index + 1]
                       IN  NewElementLoop(region, region_offset, dump, element_idx + 1,
                               [a1 EXCEPT !.kernels = Append(@, dump[cubin_path]),
                                          !.cubin_path_index = @ + 1,
                                          !.dumped = Append(@, cubin_path)])

\* locator.rs 87-88: the file offset of the next region
NextRegionOffset(region_offset, region) == region_offset + RegionSize(region)

\* The region loop.  acc carries element_span, element_kernels, offset,
\* cubin_path_index, dumped and ok.
RECURSIVE NewRegionLoop(_, _, _)
NewRegionLoop(dump, region_idx, acc) ==
    IF ~acc.ok \/ region_idx > Len(regions) THEN acc
    ELSE LET region == regions[region_idx]
             inner == NewElementLoop(region, acc.offset, dump, 1,
                          [spans |-> <<>>, kernels |-> <<>>, inner_offset |-> 0,
                           cubin_path_index |-> acc.cubin_path_index,
                           dumped |-> acc.dumped, ok |-> TRUE])
         IN  NewRegionLoop(dump, region_idx + 1,
                 [element_span |-> Append(acc.element_span, inner.spans),
                  element_kernels |-> Append(acc.element_kernels, inner.kernels),
                  offset |-> NextRegionOffset(acc.offset, region),
                  cubin_path_index |-> inner.cubin_path_index,
                  dumped |-> inner.dumped,
                  ok |-> inner.ok])

CubinFiles == {cubin_paths[k] : k \in 1..Len(cubin_paths)}

\* KernelLocator::new after GPUCode::new and extract_all_cubins: the span and
\* kernel loops.  cubin_dump records what extract_cubin_kernels returned for
\* the cubin files it was run on.
NewLocator ==
    /\ pc = "new"
    /\ \E dump \in [CubinFiles -> KernelSets(dom)] :
          LET r == NewRegionLoop(dump, 1,
                       [element_span |-> <<>>, element_kernels |-> <<>>,
                        offset |-> gpu_code_start_offset, cubin_path_index |-> 0,
                        dumped |-> <<>>, ok |-> TRUE])
          IN  IF r.ok
              THEN /\ element_span' = r.element_span
                   /\ element_kernels' = r.element_kernels
                   /\ cubin_dump' = [k \in 1..Len(r.dumped) |->
                                        [path |-> r.dumped[k], kernels |-> dump[r.dumped[k]]]]
                   /\ pc' = "ready"
              ELSE /\ pc' = "panic"
                   /\ UNCHANGED <<element_span, element_kernels, cubin_dump>>
    /\ UNCHANGED <<dom, so_path, gpu_code_start_offset, gpu_code_len, offset,
                   header, element_offset, elements, regions, cubin_paths,
                   query, not_locator>>

-----------------------------------------------------------------------------
(* Region::find_most_fit_capability *)

RECURSIVE MostFitLoop(_, _, _, _)
MostFitLoop(es, k, target_cap, most_fit_cap) ==
    IF k > Len(es) THEN most_fit_cap
    ELSE MostFitLoop(es, k + 1, target_cap,
             IF es[k].header.capability <= target_cap
                /\ es[k].header.capability > most_fit_cap
             THEN es[k].header.capability
             ELSE most_fit_cap)

\* A variant that keeps the last fitting capability instead of the largest
\* (the test `> most_fit_cap` dropped).
RECURSIVE LastFitLoop(_, _, _, _)
LastFitLoop(es, k, target_cap, most_fit_cap) ==
    IF k > Len(es) THEN most_fit_cap
    ELSE LastFitLoop(es, k + 1, target_cap,
             IF es[k].header.capability <= target_cap
             THEN es[k].header.capability
             ELSE most_fit_cap)

find_most_fit_capability_last(region, target_cap) ==
    LastFitLoop(region.elements, 1, target_cap, 0)

find_most_fit_capability(region, target_cap) ==
    MostFitLoop(region.elements, 1, target_cap, 0)

-----------------------------------------------------------------------------
(* KernelLocator::locate_deletable_file_spans *)

get_element_span(i, j) == element_span[i][j]

get_element_kernels(i, j) == element_kernels[i][j]

\* Variants of IsPushed: without the libcublas workaround, without the
\* file_type test, and one that pushes nothing when no capability fits.
IsPushed_NoWorkaround(i, j, most_fit_cap, detected_kernels) ==
    LET element == regions[i].elements[j] IN
    IF element.header.capability # most_fit_cap THEN TRUE
    ELSE IF element.header.file_type # CubinFileType THEN FALSE
    ELSE detected_kernels \cap get_element_kernels(i, j) = {}

IsPushed_NoFileTypeTest(i, j, most_fit_cap, detected_kernels) ==
    LET element == regions[i].elements[j] IN
    IF element.header.capability # most_fit_cap THEN TRUE
    ELSE IF detected_kernels \cap get_element_kernels(i, j) = {}
         THEN ~(ContainsLibcublas(so_path)
                /\ CUBLAS_INTERNAL_CONSTANT \in get_element_kernels(i, j))
         ELSE FALSE

IsPushed_SkipUnfit(i, j, most_fit_cap, detected_kernels) ==
    LET element == regions[i].elements[j] IN
    IF most_fit_cap = 0 THEN FALSE
    ELSE IF element.header.capability # most_fit_cap THEN TRUE
    ELSE IF element.header.file_type # CubinFileType THEN FALSE
    ELSE IF detected_kernels \cap get_element_kernels(i, j) = {}
         THEN ~(ContainsLibcublas(so_path)
                /\ CUBLAS_INTERNAL_CONSTANT \in get_element_kernels(i, j))
         ELSE FALSE

\* locator.rs 115-137: whether element j of region i is pushed
IsPushed(i, j, most_fit_cap, detected_kernels) ==
    LET element == regions[i].elements[j] IN
    IF element.header.capability # most_fit_cap THEN TRUE
    ELSE IF element.header.file_type # CubinFileType THEN FALSE
    ELSE IF detected_kernels \cap get_element_kernels(i, j) = {}
         THEN ~(ContainsLibcublas(so_path)
                /\ CUBLAS_INTERNAL_CONSTANT \in get_element_kernels(i, j))
         ELSE FALSE

\* The loops over regions i and elements j; the result lists the <<i, j>>
\* whose span is pushed, in the order of the pushes.
RECURSIVE LocateLoop(_, _, _, _, _)
LocateLoop(i, j, detected_kernels, compute_capability, pushed) ==
    IF i > Len(regions) THEN pushed
    ELSE IF j > Len(regions[i].elements)
         THEN LocateLoop(i + 1, 1, detected_kernels, compute_capability, pushed)
         ELSE LET most_fit_cap ==
                      find_most_fit_capability(regions[i], compute_capability)
              IN  LocateLoop(i, j + 1, detected_kernels, compute_capability,
                      IF IsPushed(i, j, most_fit_cap, detected_kernels)
                      THEN Append(pushed, <<i, j>>)
                      ELSE pushed)

RECURSIVE Reverse(_)
Reverse(s) == IF s = <<>> THEN <<>> ELSE Append(Reverse(Tail(s)), s[1])

\* A variant that pushes at the front of the list.
DeletableIndices_Front(detected_kernels, compute_capability) ==
    Reverse(LocateLoop(1, 1, detected_kernels, compute_capability, <<>>))

\* the <<region, element>> indices pushed by locate_deletable_file_spans
DeletableIndices(detected_kernels, compute_capability) ==
    LocateLoop(1, 1, detected_kernels, compute_capability, <<>>)

\* the return value: the spans of the pushed elements
locate_deletable_file_spans(detected_kernels, compute_capability) ==
    LET pushed == DeletableIndices(detected_kernels, compute_capability)
    IN  [k \in 1..Len(pushed) |-> get_element_span(pushed[k][1], pushed[k][2])]

\* A call locator.locate_deletable_file_spans(detected_kernels,
\* compute_capability); query keeps the arguments, the most-fit capability
\* computed for each region, the indices pushed and the spans returned.
\* The method reads the locator and changes nothing, so a second call would
\* return what a first call with the same arguments returns: a run makes one.
Locate ==
    /\ pc = "ready"
    /\ ~query.asked
    /\ \E detected_kernels \in UsedKernels(dom), compute_capability \in Targets(dom) :
          query' = [asked |-> TRUE,
                    detected_kernels |-> detected_kernels,
                    compute_capability |-> compute_capability,
                    most_fit_cap |-> [i \in 1..Len(regions) |->
                        find_most_fit_capability(regions[i], compute_capability)],
                    pushed |-> DeletableIndices(detected_kernels, compute_capability),
                    deletable_spans |->
                        locate_deletable_file_spans(detected_kernels, compute_capability)]
    /\ UNCHANGED <<dom, pc, so_path, gpu_code_start_offset, gpu_code_len, offset,
                   header, element_offset, elements, regions, cubin_paths,
                   element_span, element_kernels, cubin_dump, not_locator>>

-----------------------------------------------------------------------------
(* 64-bit machine arithmetic.  A 64-bit word is four 16-bit limbs, least      *)
(* significant first, so that the model keeps the width of u64 and i64.  The *)
(* casts `as i64` and `as u64` keep the bits, so they are the identity here. *)

LimbBase == 256 * 256

Word(l3, l2, l1, l0) == <<l0, l1, l2, l3>>

\* unsigned a < b
RECURSIVE LtFrom(_, _, _)
LtFrom(a, b, k) ==
    IF k < 1 THEN FALSE
    ELSE IF a[k] # b[k] THEN a[k] < b[k]
    ELSE LtFrom(a, b, k - 1)

ULt(a, b) == LtFrom(a, b, 4)

RECURSIVE SubLimbs(_, _, _, _)
SubLimbs(a, b, k, borrow) ==
    IF k > 4 THEN <<>>
    ELSE LET d == a[k] - b[k] - borrow
         IN  <<IF d < 0 THEN d + LimbBase ELSE d>>
             \o SubLimbs(a, b, k + 1, IF d < 0 THEN 1 ELSE 0)

RECURSIVE AddLimbs(_, _, _, _)
AddLimbs(a, b, k, carry) ==
    IF k > 4 THEN <<>>
    ELSE LET d == a[k] + b[k] + carry
         IN  <<IF d >= LimbBase THEN d - LimbBase ELSE d>>
             \o AddLimbs(a, b, k + 1, IF d >= LimbBase THEN 1 ELSE 0)

\* a - b and a + b modulo 2^64
WrappingSub(a, b) == SubLimbs(a, b, 1, 0)
WrappingAdd(a, b) == AddLimbs(a, b, 1, 0)

\* the sign bit of the word read as i64
Negative(a) == a[4] >= LimbBase \div 2

\* whether a - b, a + b overflow i64; whether a - b overflows u64
I64SubOverflows(a, b) ==
    Negative(a) # Negative(b) /\ Negative(WrappingSub(a, b)) # Negative(a)
I64AddOverflows(a, b) ==
    Negative(a) = Negative(b) /\ Negative(WrappingAdd(a, b)) # Negative(a)
U64SubOverflows(a, b) == ULt(a, b)

Panic == [kind |-> "panic"]
None == [kind |-> "none"]
Some(v) == [kind |-> "some", value |-> v]

\* An arithmetic operator of the source: with overflow checks (the debug
\* profile, the one `cargo test` builds) an overflow panics, without them
\* (the release profile) the result wraps.
Checked(overflows, wrapped, overflow_checks) ==
    IF overflows /\ overflow_checks THEN Panic ELSE Some(wrapped)

-----------------------------------------------------------------------------
(* The ELF reader, elf/elf.rs.  An ELF file is its program headers, its two  *)
(* symbol tables (absent, or a list of symbols, each with the name its       *)
(* st_name resolves to) and whether the sections .strtab and .dynstr exist.  *)

MaxSegments == 2   \* program headers of a file
MaxSymbols == 1    \* symbols of one symbol table
MaxTableSymbols == 2 \* the same, where the files vary in their tables

Absent == [present |-> FALSE]
Table(symbols) == [present |-> TRUE, symbols |-> symbols]

SeqsUpTo(S, n) == UNION {[1..k -> S] : k \in 0..n}

\* (p_vaddr, p_offset) pairs give delta = 0, 0x1000, -0x1000; the read-write
\* segment is not the one ELF64::new looks for
Segments ==
    {[p_type |-> "PT_LOAD", p_flags |-> {"R", "X"},
      p_vaddr |-> Word(0, 0, 0, 0), p_offset |-> Word(0, 0, 0, 0)],
     [p_type |-> "PT_LOAD", p_flags |-> {"R", "X"},
      p_vaddr |-> Word(0, 0, 0, 4096), p_offset |-> Word(0, 0, 0, 0)],
     [p_type |-> "PT_LOAD", p_flags |-> {"R", "X"},
      p_vaddr |-> Word(0, 0, 0, 0), p_offset |-> Word(0, 0, 0, 4096)],
     [p_type |-> "PT_LOAD", p_flags |-> {"R", "W"},
      p_vaddr |-> Word(0, 0, 0, 12288), p_offset |-> Word(0, 0, 0, 8192)]}

\* st_value 0 (an undefined symbol), 0xabed (the fixture's), 2^63 + 0xfff
SymbolValues == {Word(0, 0, 0, 0), Word(0, 0, 0, 44013), Word(32768, 0, 0, 4095)}

Symbols == [name : {"_dl_debug_state"}, st_value : SymbolValues]

SymbolTables == {Absent} \cup {Table(t) : t \in SeqsUpTo(Symbols, MaxSymbols)}

\* the sections a lookup by name can find, besides .strtab and .dynstr
SectionHeaders ==
    [name \in {".nv_fatbin"} |->
        [sh_offset |-> Word(0, 0, 0, 12288), sh_size |-> Word(0, 0, 0, 64)]]

\* Files that vary in their segments and symbol values.
ElfFiles ==
    [segments : SeqsUpTo(Segments, MaxSegments),
     symtab : SymbolTables, strtab : {TRUE},
     dynsym : SymbolTables, dynstr : {TRUE},
     sections : {DOMAIN SectionHeaders}]

\* Files that vary in their symbol tables and string sections: two names,
\* tables absent, empty or with several symbols, string sections missing.
TableSegmentLists ==
    {<<s>> : s \in {g \in Segments : g.p_vaddr = Word(0, 0, 0, 0)
                                     /\ g.p_offset = Word(0, 0, 0, 0)}}
    \cup {<<r, s>> : r \in {g \in Segments : g.p_flags = {"R", "W"}},
                     s \in {g \in Segments : g.p_vaddr = Word(0, 0, 0, 4096)}}
    \cup {<<r>> : r \in {g \in Segments : g.p_flags = {"R", "W"}}}

TableSymbols ==
    {[name |-> "_dl_debug_state", st_value |-> Word(0, 0, 0, 0)],
     [name |-> "_dl_debug_state", st_value |-> Word(0, 0, 0, 44013)],
     [name |-> "_r_debug", st_value |-> Word(0, 0, 0, 44013)]}

ElfTableFiles ==
    [segments : TableSegmentLists,
     symtab : {Absent} \cup {Table(t) : t \in SeqsUpTo(TableSymbols, MaxTableSymbols)},
     strtab : BOOLEAN,
     dynsym : {Absent} \cup {Table(t) : t \in SeqsUpTo(TableSymbols, MaxTableSymbols)},
     dynstr : BOOLEAN,
     sections : {DOMAIN SectionHeaders}]

LookupSections == {".nv_fatbin", ".text"}

LookupNames == {"_dl_debug_state", "_r_debug"}

\* elf.rs 19-24: the first PT_LOAD segment whose flags are exactly R|X
RECURSIVE FindExecutable(_, _)
FindExecutable(segments, k) ==
    IF k > Len(segments) THEN 0
    ELSE IF segments[k].p_type = "PT_LOAD" /\ segments[k].p_flags = {"R", "X"}
         THEN k
         ELSE FindExecutable(segments, k + 1)

\* elf.rs 25: p_vaddr as i64 - p_offset as i64
AddrOffsetDiff(phdr, overflow_checks) ==
    Checked(I64SubOverflows(phdr.p_vaddr, phdr.p_offset),
            WrappingSub(phdr.p_vaddr, phdr.p_offset), overflow_checks)

\* ELF64::new: .find(..).unwrap() panics when no segment qualifies
ElfNew ==
    /\ elf.phase = "file"
    /\ LET k == FindExecutable(elf.file.segments, 1) IN
       IF k = 0 THEN elf' = [elf EXCEPT !.phase = "panic"]
       ELSE LET diff == AddrOffsetDiff(elf.file.segments[k], elf.overflow_checks) IN
            IF diff = Panic THEN elf' = [elf EXCEPT !.phase = "panic"]
            ELSE elf' = [elf EXCEPT !.phase = "ready", !.executable_phdr = k,
                                    !.addr_offset_diff = diff.value]
    /\ UNCHANGED not_elf

\* elf.rs 78 and 90: s.st_value - self.addr_offset_diff as u64
SymbolOffset(st_value, addr_offset_diff, overflow_checks) ==
    Checked(U64SubOverflows(st_value, addr_offset_diff),
            WrappingSub(st_value, addr_offset_diff), overflow_checks)

\* The scan of one symbol table.  The name of each symbol is fetched from the
\* string section, looked up by name and unwrapped (a panic when the section
\* is missing), before it is compared.
RECURSIVE ScanSymbols(_, _, _, _, _, _)
ScanSymbols(symbols, k, has_strings, symbol_bytes, addr_offset_diff, overflow_checks) ==
    IF k > Len(symbols) THEN None
    ELSE IF ~has_strings THEN Panic
    ELSE IF symbols[k].name = symbol_bytes
         THEN SymbolOffset(symbols[k].st_value, addr_offset_diff, overflow_checks)
         ELSE ScanSymbols(symbols, k + 1, has_strings, symbol_bytes,
                          addr_offset_diff, overflow_checks)

\* the two tables scanned in the other order
get_symbol_offset_dynamic_first(e, symbol_bytes) ==
    LET dynamic == IF e.file.dynsym.present
                   THEN ScanSymbols(e.file.dynsym.symbols, 1, e.file.dynstr,
                                    symbol_bytes, e.addr_offset_diff, e.overflow_checks)
                   ELSE None
    IN  IF dynamic # None THEN dynamic
        ELSE IF e.file.symtab.present
             THEN ScanSymbols(e.file.symtab.symbols, 1, e.file.strtab,
                              symbol_bytes, e.addr_offset_diff, e.overflow_checks)
             ELSE None

\* ELF64::get_symbol_offset: the static table, then the dynamic table
get_symbol_offset(e, symbol_bytes) ==
    LET static == IF e.file.symtab.present
                  THEN ScanSymbols(e.file.symtab.symbols, 1, e.file.strtab,
                                   symbol_bytes, e.addr_offset_diff, e.overflow_checks)
                  ELSE None
    IN  IF static # None THEN static
        ELSE IF e.file.dynsym.present
             THEN ScanSymbols(e.file.dynsym.symbols, 1, e.file.dynstr,
                              symbol_bytes, e.addr_offset_diff, e.overflow_checks)
             ELSE None

\* elf.rs 104: (off as i64 + self.addr_offset_diff) as u64
AddrOfOffset(off, addr_offset_diff, overflow_checks) ==
    Checked(I64AddOverflows(off, addr_offset_diff),
            WrappingAdd(off, addr_offset_diff), overflow_checks)

\* ELF64::get_symbol_addr
get_symbol_addr(e, symbol_bytes) ==
    LET offset_result == get_symbol_offset(e, symbol_bytes) IN
    IF offset_result.kind = "some"
    THEN AddrOfOffset(offset_result.value, e.addr_offset_diff, e.overflow_checks)
    ELSE offset_result

\* A call of get_symbol_offset; a panic ends the process.
GetSymbolOffset(symbol_bytes) ==
    /\ elf.phase = "ready"
    /\ LET r == get_symbol_offset(elf, symbol_bytes) IN
       elf' = [elf EXCEPT !.phase = IF r = Panic THEN "panic" ELSE "ready",
                          !.call = [fn |-> "get_symbol_offset",
                                    symbol |-> symbol_bytes, result |-> r]]
    /\ UNCHANGED not_elf

\* A call of get_symbol_addr; `offset` is its local of that name, the result
\* of the inner get_symbol_offset.
GetSymbolAddr(symbol_bytes) ==
    /\ elf.phase = "ready"
    /\ LET r == get_symbol_addr(elf, symbol_bytes) IN
       elf' = [elf EXCEPT !.phase = IF r = Panic THEN "panic" ELSE "ready",
                          !.call = [fn |-> "get_symbol_addr",
                                    symbol |-> symbol_bytes, result |-> r,
                                    offset |-> get_symbol_offset(elf, symbol_bytes)]]
    /\ UNCHANGED not_elf

\* section_header_by_name over a well-formed section header table
section_header_by_name(e, section_name) ==
    IF section_name \in e.file.sections THEN Some(SectionHeaders[section_name])
    ELSE IF (section_name = ".strtab" /\ e.file.strtab)
            \/ (section_name = ".dynstr" /\ e.file.dynstr)
         THEN Some([sh_offset |-> Word(0, 0, 0, 8192), sh_size |-> Word(0, 0, 0, 256)])
         ELSE None

\* ELF64::get_section_offset and ELF64::get_section_size
get_section_offset(e, section_name) ==
    LET section_header == section_header_by_name(e, section_name) IN
    IF section_header = None THEN None ELSE Some(section_header.value.sh_offset)

get_section_size(e, section_name) ==
    LET section_header == section_header_by_name(e, section_name) IN
    IF section_header = None THEN None ELSE Some(section_header.value.sh_size)

\* A call of get_section_offset or get_section_size.
GetSectionOffset(section_name) ==
    /\ elf.phase = "ready"
    /\ elf' = [elf EXCEPT !.call = [fn |-> "get_section_offset",
                                    symbol |-> section_name,
                                    result |-> get_section_offset(elf, section_name)]]
    /\ UNCHANGED not_elf

GetSectionSize(section_name) ==
    /\ elf.phase = "ready"
    /\ elf' = [elf EXCEPT !.call = [fn |-> "get_section_size",
                                    symbol |-> section_name,
                                    result |-> get_section_size(elf, section_name)]]
    /\ UNCHANGED not_elf

-----------------------------------------------------------------------------
(* Paths, as Tracer::trace filters and normalizes them (tracer.rs 88-113).   *)
(* A path is its components and whether it starts at the root; the empty     *)
(* string is the relative path without components.  The file system is the   *)
(* one the collector looks at: directories, regular files and one symbolic   *)
(* link, with /work the current directory of the tracer.                     *)

AbsPath(parts) == [absolute |-> TRUE, parts |-> parts]
RelPath(parts) == [absolute |-> FALSE, parts |-> parts]

Directories == {<<>>, <<"usr">>, <<"usr", "lib">>, <<"work">>}
RegularFiles == {<<"usr", "lib", "libcuda.so">>,
                 <<"usr", "lib", "libkerneldetector.so">>,
                 <<"work", "libdemo.so">>}
\* /usr/lib/libcuda.so.1 -> /usr/lib/libcuda.so
SymbolicLinks == [link \in {<<"usr", "lib", "libcuda.so.1">>} |->
                     <<"usr", "lib", "libcuda.so">>]
current_dir == <<"work">>

ShimName == "libkerneldetector.so"

\* the strings a link map can hold in l_name
EmptyName == RelPath(<<>>)
LibcudaLink == AbsPath(<<"usr", "lib", "libcuda.so.1">>)
Libcuda == AbsPath(<<"usr", "lib", "libcuda.so">>)
LibdemoRelative == RelPath(<<"libdemo.so">>)
LibdemoDotRelative == RelPath(<<".", "libdemo.so">>)
ShimPath == AbsPath(<<"usr", "lib", ShimName>>)
GonePath == AbsPath(<<"gone.so">>)

Front(seq) == SubSeq(seq, 1, Len(seq) - 1)

\* The walk of the components of an absolute path from the root: "." stays,
\* ".." goes up, a symbolic link is followed, a missing entry fails.
\* `at` is the place reached, <<"?">> once the walk has failed.
Missing == <<"?">>
RECURSIVE Walk(_, _)
Walk(at, parts) ==
    IF parts = <<>> \/ at = Missing THEN at
    ELSE LET name == Head(parts)
             entry == Append(at, name)
         IN  IF at \notin Directories THEN Missing
             ELSE IF name = "." THEN Walk(at, Tail(parts))
             ELSE IF name = ".." THEN Walk(IF at = <<>> THEN at ELSE Front(at), Tail(parts))
             ELSE IF entry \in DOMAIN SymbolicLinks
                  THEN Walk(SymbolicLinks[entry], Tail(parts))
             ELSE IF entry \in Directories \cup RegularFiles
                  THEN Walk(entry, Tail(parts))
             ELSE Missing

\* where a path leads; a relative path is taken from the current directory
Resolve(path) ==
    Walk(<<>>, IF path.absolute THEN path.parts ELSE current_dir \o path.parts)

\* Path::exists, Path::is_absolute, str::is_empty, str::contains(shim)
path_exists(path) == Resolve(path) # Missing
is_absolute(path) == path.absolute
is_empty(path) == ~path.absolute /\ path.parts = <<>>
contains_shim(path) == \E k \in 1..Len(path.parts) : path.parts[k] = ShimName

\* Path::canonicalize of an existing path
canonicalize(path) == AbsPath(Resolve(path))

\* format!("{}/{}", current_dir, so_path): the two strings joined as they are
join_current_dir(path) == AbsPath(current_dir \o path.parts)

\* tracer.rs 103-111
abs_so_path(path) ==
    IF is_absolute(path) THEN canonicalize(path) ELSE join_current_dir(path)

\* tracer.rs 89-101: the messages that reach the set
is_collected(path) ==
    ~is_empty(path) /\ path_exists(path) /\ ~contains_shim(path)

\* the loop body of the collector on one message
CollectOne(loaded_sos, path) ==
    IF is_collected(path) THEN loaded_sos \cup {abs_so_path(path)} ELSE loaded_sos

-----------------------------------------------------------------------------
(* Tracer::trace and Tracer::trace_multi_processes, tracer/tracer.rs.        *)
(* The thread that runs trace is the collector; every traced pid gets a      *)
(* supervisor thread, named by that pid.  A process is stopped, running or   *)
(* exited and has at most one tracer, the thread its ptrace stops report to. *)

MaxPids == 2      \* processes of the traced tree
MaxEvents == 1    \* stops, other than forks, a process reports before it ends
MaxLinkMap == 1   \* nodes of a link map
MaxMessages == 2  \* messages in the channel, where the collector runs alone

MainThread == 0
NoTracer == -1

Unborn == [pc |-> "unborn", sender |-> FALSE, child |-> 0]

\* what the tracer leaves alone
not_tracer == <<locator_vars, elf, extractor, recon>>

\* the strings a Sender can send
SoNames == {EmptyName, LibcudaLink, Libcuda, LibdemoRelative, LibdemoDotRelative,
            ShimPath, GonePath}

\* l_name strings of the link map of process p: one library for the root,
\* another for its descendants
LinkNames(p) == IF p = 1 THEN {LibcudaLink} ELSE {LibdemoRelative}

Alive(p) == procs[p].state # "exited"

\* The steps of the protocol that were taken for pid p, in their order, up to
\* the first ptrace::cont of p; `done` are the steps just taken.
Record(ps, p, done) ==
    IF "cont" \in {ps[p].steps[k] : k \in 1..Len(ps[p].steps)} THEN ps
    ELSE [ps EXCEPT ![p].steps = @ \o done]

\* lines 194-218 without the breakpoint
PrepareStepsNoHook == <<"waitpid", "setoptions", "maps">>

\* lines 194-218: waitpid, setoptions, the memory maps with the base of the
\* loader, 0xCC at the hook
PrepareSteps == <<"waitpid", "setoptions", "maps", "hook">>

\* A ptrace request of thread t for pid p.  The requests made while another
\* thread is the tracer of p are kept, with that tracer.
Requested(t, p) ==
    IF procs[p].tracer \in {t, NoTracer} THEN requests
    ELSE requests \cup {[thread |-> t, pid |-> p, holder |-> procs[p].tracer]}

\* ptrace::detach leaves the process without a tracer; the variant keeps it
NotDetached(ps, p) == ps
Detached(ps, p) == [ps EXCEPT ![p].tracer = NoTracer]

\* When a thread ends, the processes it traces are detached by the kernel
\* and resumed.
Released(ps, t) ==
    [p \in DOMAIN ps |->
        IF ps[p].tracer = t
        THEN [ps[p] EXCEPT !.tracer = NoTracer,
                           !.state = IF @ = "stopped" THEN "running" ELSE @]
        ELSE ps[p]]

\* a panic that takes the whole process down, as with panic = "abort"
PanickedAll(ths, t) == [u \in DOMAIN ths |-> [pc |-> "panic", sender |-> FALSE, child |-> 0]]

\* A panic unwinds the thread that raised it, dropping its Sender.
Panicked(ths, t) == [ths EXCEPT ![t] = [pc |-> "panic", sender |-> FALSE, child |-> 0]]

ThreadPanics(t) ==
    /\ threads' = Panicked(threads, t)
    /\ procs' = Released(procs, t)

\* trace, line 66 and the child branch 151-178: fork; the child calls
\* traceme and execve and stops at the exec, traced by the forking thread.
TraceFork ==
    /\ collector.pc = "fork"
    /\ procs' = <<[state |-> "stopped", tracer |-> MainThread, events |-> MaxEvents,
                    steps |-> <<"fork">>]>>
    /\ threads' = <<Unborn>>
    /\ collector' = [collector EXCEPT !.pc = "setoptions"]
    /\ UNCHANGED <<chan, sent, requests>>
    /\ UNCHANGED not_tracer

\* trace, lines 68-76: waitpid, setoptions
TraceSetOptions ==
    /\ collector.pc = "setoptions"
    /\ requests' = Requested(MainThread, 1)
    /\ collector' = [collector EXCEPT !.pc = "detach"]
    /\ procs' = Record(procs, 1, <<"waitpid", "setoptions">>)
    /\ UNCHANGED <<threads, chan, sent>>
    /\ UNCHANGED not_tracer

\* trace, lines 78-79: the channel, then detach(child, SIGSTOP)
TraceDetach ==
    /\ collector.pc = "detach"
    /\ requests' = Requested(MainThread, 1)
    /\ procs' = Record(Detached(procs, 1), 1, <<"detach">>)
    /\ collector' = [collector EXCEPT !.pc = "spawn", !.sender = TRUE]
    /\ UNCHANGED <<threads, chan, sent>>
    /\ UNCHANGED not_tracer

\* trace, lines 80-86: trace_multi_processes moves so_sender into the thread
TraceSpawn ==
    /\ collector.pc = "spawn"
    /\ threads' = [threads EXCEPT ![1] = [pc |-> "attach", sender |-> TRUE, child |-> 0]]
    /\ collector' = [collector EXCEPT !.pc = "recv", !.sender = FALSE]
    /\ procs' = Record(procs, 1, <<"spawn">>)
    /\ UNCHANGED <<chan, sent, requests>>
    /\ UNCHANGED not_tracer

SenderAlive == collector.sender \/ \E t \in DOMAIN threads : threads[t].sender

\* the receiver's iterator ends at once when nothing is queued
ChannelEmpty == chan = <<>>

\* The receiver's iterator ends when nothing is queued and every Sender has
\* been dropped.
ChannelClosed == chan = <<>> /\ ~SenderAlive

\* trace, lines 88-114: one turn of the loop over the receiver
Collect ==
    /\ collector.pc = "recv"
    /\ chan # <<>>
    /\ collector' = [collector EXCEPT !.loaded_sos = CollectOne(@, Head(chan))]
    /\ chan' = Tail(chan)
    /\ UNCHANGED <<procs, threads, sent, requests>>
    /\ UNCHANGED not_tracer

\* trace, line 115: the loop is left
CollectEnd ==
    /\ collector.pc = "recv"
    /\ ChannelClosed
    /\ collector' = [collector EXCEPT !.pc = "read_log"]
    /\ UNCHANGED <<procs, threads, chan, sent, requests>>
    /\ UNCHANGED not_tracer

\* trace, lines 117-128: the kernel log is read
ReadLog ==
    /\ collector.pc = "read_log"
    /\ collector' = [collector EXCEPT !.pc = "done",
                        !.alive_at_read = {p \in DOMAIN procs : Alive(p)}]
    /\ UNCHANGED <<procs, threads, chan, sent, requests>>
    /\ UNCHANGED not_tracer

\* the supervisor thread of pid t is at this place
At(t, place) == t \in DOMAIN threads /\ threads[t].pc = place

Goto(t, place) == threads' = [threads EXCEPT ![t].pc = place]

\* trace_multi_processes, lines 191-193: the thread starts and attaches.
\* The request fails when the process is gone, is traced by another thread
\* or the kernel refuses.
Attach(t) ==
    /\ At(t, "attach")
    /\ requests' = Requested(t, t)
    /\ \E permitted \in BOOLEAN :
          IF permitted /\ Alive(t) /\ procs[t].tracer = NoTracer
          THEN /\ procs' = Record([procs EXCEPT ![t].tracer = t, ![t].state = "stopped"],
                                   t, <<"attach">>)
               /\ Goto(t, "prepare")
          ELSE ThreadPanics(t)
    /\ UNCHANGED <<chan, sent, collector>>
    /\ UNCHANGED not_tracer

\* lines 194-218: waitpid, setoptions, the memory maps, the loader's base,
\* the breakpoint; any of them can fail
Prepare(t) ==
    /\ At(t, "prepare")
    /\ requests' = Requested(t, t)
    /\ \E ok \in BOOLEAN :
          IF ok THEN Goto(t, "cont") /\ procs' = Record(procs, t, PrepareSteps)
          ELSE ThreadPanics(t)
    /\ UNCHANGED <<chan, sent, collector>>
    /\ UNCHANGED not_tracer

\* line 221: ptrace::cont, which fails when the process is gone or not
\* stopped under this thread
Cont(t) ==
    /\ At(t, "cont")
    /\ requests' = Requested(t, t)
    /\ IF procs[t].state = "stopped" /\ procs[t].tracer = t
       THEN /\ procs' = Record([procs EXCEPT ![t].state = "running"], t, <<"cont">>)
            /\ Goto(t, "wait")
       ELSE ThreadPanics(t)
    /\ UNCHANGED <<chan, sent, collector>>
    /\ UNCHANGED not_tracer

\* waitpid at line 222 returns when the running process stops or ends
Waiting(t) == At(t, "wait") /\ procs[t].state = "running"

Stops(t) == [procs EXCEPT ![t].state = "stopped", ![t].events = @ - 1]

\* lines 225-251: a SIGTRAP stop.  At the hook with a consistent r_debug the
\* l_name of every node of the link map is sent (names); elsewhere nothing
\* is.  A failed read of the tracee's memory ends the walk with a panic
\* after the first `reached` nodes.
WaitTrap(t) ==
    /\ Waiting(t)
    /\ procs[t].events > 0
    /\ requests' = Requested(t, t)
    /\ \E names \in SeqsUpTo(LinkNames(t), MaxLinkMap), reached \in 0..MaxLinkMap :
          /\ reached <= Len(names)
          /\ chan' = chan \o SubSeq(names, 1, reached)
          /\ sent' = sent \cup {[thread |-> t, so_path |-> names[k]] : k \in 1..reached}
          /\ IF reached = Len(names)
             THEN procs' = Stops(t) /\ Goto(t, "cont")
             ELSE /\ threads' = Panicked(threads, t)
                  /\ procs' = Released(Stops(t), t)
    /\ UNCHANGED collector
    /\ UNCHANGED not_tracer

\* lines 252-269: a fork, clone or vfork event; the new process starts
\* stopped and traced by the tracer of its parent; getevent gives its pid.
\* The number of processes bounds these events.
WaitForkEvent(t) ==
    /\ Waiting(t)
    /\ Len(procs) < MaxPids
    /\ requests' = Requested(t, t)
    /\ procs' = Append([procs EXCEPT ![t].state = "stopped"],
                       [state |-> "stopped", tracer |-> procs[t].tracer,
                        events |-> MaxEvents, steps |-> <<"getevent">>])
    /\ threads' = Append([threads EXCEPT ![t].pc = "fork_wait",
                                         ![t].child = Len(procs) + 1], Unborn)
    /\ UNCHANGED <<chan, sent, collector>>
    /\ UNCHANGED not_tracer

\* line 270: waitpid for the initial stop of the new process
ForkWait(t) ==
    /\ At(t, "fork_wait")
    /\ \E ok \in BOOLEAN :
          IF ok THEN /\ Goto(t, "fork_detach")
                     /\ procs' = Record(procs, threads[t].child, <<"waitpid">>)
          ELSE ThreadPanics(t)
    /\ UNCHANGED <<chan, sent, collector, requests>>
    /\ UNCHANGED not_tracer

\* lines 271-272: detach(new_trace_pid, SIGSTOP)
ForkDetach(t) ==
    /\ At(t, "fork_detach")
    /\ requests' = Requested(t, threads[t].child)
    /\ procs' = Record(Detached(procs, threads[t].child), threads[t].child, <<"detach">>)
    /\ Goto(t, "fork_spawn")
    /\ UNCHANGED <<chan, sent, collector>>
    /\ UNCHANGED not_tracer

\* lines 273-280: the Sender is cloned and moved into a new thread
ForkSpawn(t) ==
    /\ At(t, "fork_spawn")
    /\ threads' = [threads EXCEPT
                      ![threads[t].child] = [pc |-> "attach", sender |-> TRUE, child |-> 0],
                      ![t] = [@ EXCEPT !.pc = "cont", !.child = 0]]
    /\ procs' = Record(procs, threads[t].child, <<"spawn">>)
    /\ UNCHANGED <<chan, sent, collector, requests>>
    /\ UNCHANGED not_tracer

\* lines 303-324: an exec event; the maps are read again and the breakpoint
\* is set again, which can fail
WaitExec(t) ==
    /\ Waiting(t)
    /\ procs[t].events > 0
    /\ requests' = Requested(t, t)
    /\ \E ok \in BOOLEAN :
          IF ok THEN procs' = Stops(t) /\ Goto(t, "cont")
          ELSE /\ threads' = Panicked(threads, t)
               /\ procs' = Released(Stops(t), t)
    /\ UNCHANGED <<chan, sent, collector>>
    /\ UNCHANGED not_tracer

\* lines 282-284: a stop by another signal
WaitSignal(t) ==
    /\ Waiting(t)
    /\ procs[t].events > 0
    /\ procs' = Stops(t)
    /\ Goto(t, "cont")
    /\ UNCHANGED <<chan, sent, collector, requests>>
    /\ UNCHANGED not_tracer

\* a thread that leaves its loop and still owns its Sender
EndedWithSender(ths, t) == [ths EXCEPT ![t] = [pc |-> "done", sender |-> TRUE, child |-> 0]]

\* line 330: the closure of the thread returns and drops so_sender
Ended(ths, t) == [ths EXCEPT ![t] = [pc |-> "done", sender |-> FALSE, child |-> 0]]

\* lines 285-302: Exited, or Signaled by SIGKILL or SIGTERM without a core
\* dump: the loop is left and the thread ends
WaitExited(t) ==
    /\ Waiting(t)
    /\ procs' = Released([procs EXCEPT ![t].state = "exited"], t)
    /\ threads' = Ended(threads, t)
    /\ UNCHANGED <<chan, sent, collector, requests>>
    /\ UNCHANGED not_tracer

\* lines 325-328: Signaled by any other signal (or with a core dump) is an
\* unhandled status; the loop goes on with ptrace::cont
WaitUnhandled(t) ==
    /\ Waiting(t)
    /\ procs' = [procs EXCEPT ![t].state = "exited"]
    /\ Goto(t, "cont")
    /\ UNCHANGED <<chan, sent, collector, requests>>
    /\ UNCHANGED not_tracer

\* a running process that no thread traces ends by itself
ProcessExits(p) ==
    /\ p \in DOMAIN procs
    /\ procs[p].state = "running"
    /\ procs[p].tracer = NoTracer
    /\ procs' = [procs EXCEPT ![p].state = "exited"]
    /\ UNCHANGED <<threads, chan, sent, collector, requests>>
    /\ UNCHANGED not_tracer

-----------------------------------------------------------------------------
(* The loop of one supervisor thread in detail, tracer.rs 204-329: the       *)
(* addresses it keeps, the status waitpid reports, what it reads of the      *)
(* tracee and the signal it continues with.  Thread 1 supervises process 1;  *)
(* a child born of a fork event is handed to a thread that is not followed   *)
(* here.  The tracee's registers and memory are drawn when the supervisor    *)
(* reads them.                                                               *)

MaxStops == 2     \* stops one tracee reports before it ends
MaxChain == 2     \* nodes of the link map at one stop

\* the symbol addresses trace_multi_processes is given
dl_debug_state_addr == 16
r_debug_addr == 64

RT_CONSISTENT == 0
RT_ADD == 1

\* where the loader can be mapped
LoaderBases == {4096, 8192}

\* the memory maps of the tracee, as far as the find looks at them: the start
\* of the first range of the loader, if there is one
LoaderMaps == {None} \cup {Some(b) : b \in LoaderBases}

StopSignals == {"SIGUSR1", "SIGSTOP"}

Stopped(sig) == [kind |-> "Stopped", sig |-> sig]
PtraceEvent(event) == [kind |-> "PtraceEvent", event |-> event]
Exited == [kind |-> "Exited"]
Signaled(sig, core) == [kind |-> "Signaled", sig |-> sig, core |-> core]

ForkEvents == {"PTRACE_EVENT_CLONE", "PTRACE_EVENT_FORK", "PTRACE_EVENT_VFORK"}

\* what waitpid reports while the tracee lives
StopStatuses ==
    {Stopped("SIGTRAP")} \cup {Stopped(sig) : sig \in StopSignals}
    \cup {PtraceEvent(e) : e \in ForkEvents \cup {"PTRACE_EVENT_EXEC"}}

\* what waitpid reports when the tracee has ended
EndStatuses ==
    {Exited, Signaled("SIGKILL", FALSE), Signaled("SIGTERM", FALSE),
     Signaled("SIGSEGV", TRUE), Signaled("SIGINT", FALSE)}

\* the names a link map node can have
ChainNames == {EmptyName, Libcuda}

\* the places rip can be at a SIGTRAP stop: just after a hook of either base
TrapRips == {dl_debug_state_addr + b + 1 : b \in LoaderBases}

Sup == threads[1]
Tracee == procs[1]

\* lines 321-322 with the r_debug address left as it was
RebasedHookOnly(th, base) ==
    [th EXCEPT !.dl_debug_state_abs_addr = dl_debug_state_addr + base]

\* lines 216-217 and 321-322: both addresses from the base of the loader
Rebased(th, base) ==
    [th EXCEPT !.dl_debug_state_abs_addr = dl_debug_state_addr + base,
               !.r_debug_abs_addr = r_debug_addr + base]

\* set_first_byte_at_addr(pid, abs_addr, 0xcc): the other bytes of the word
\* are written back as they were read
set_first_byte_at_addr(p, abs_addr) == [p EXCEPT !.int3 = @ \cup {abs_addr}]

\* a stop arm that leaves cont_signal at None
cont_signal_none(status) == None

\* cont_signal at the end of a turn of the loop: None from line 223, and
\* Some(signal) from the arm of the stops by a signal other than SIGTRAP
cont_signal_after(status) ==
    IF status.kind = "Stopped" /\ status.sig # "SIGTRAP" THEN Some(status.sig)
    ELSE None

\* a walk that sends the names from the last node back to the first
walk_backwards(link_map, reached) ==
    [k \in 1..reached |-> link_map[reached + 1 - k]]

\* lines 236-248: the names sent by a walk that reads `reached` nodes, from
\* r_map on through l_next
walk(link_map, reached) == SubSeq(link_map, 1, reached)

\* the stop of the attach, whose status line 194 drops
AttachStop == [kind |-> "AttachStop"]

SupPanics ==
    threads' = [threads EXCEPT ![1].pc = "panic", ![1].sender = FALSE]

SupGoto(place) ==
    threads' = [threads EXCEPT ![1].pc = place,
                               ![1].cont_signal = cont_signal_after(Tracee.status)]

\* lines 204-219: the maps, the base of the loader, the two addresses, the
\* breakpoint, cont_signal = None
LoopPrepare ==
    /\ Sup.pc = "prepare"
    /\ IF Tracee.loader = None
       THEN SupPanics /\ UNCHANGED procs
       ELSE /\ threads' = [threads EXCEPT
                              ![1] = [Rebased(@, Tracee.loader.value) EXCEPT
                                         !.pc = "cont", !.cont_signal = None]]
            /\ procs' = [procs EXCEPT
                            ![1] = set_first_byte_at_addr(
                                      @, dl_debug_state_addr + Tracee.loader.value)]
    /\ UNCHANGED <<chan, sent, collector, requests>>
    /\ UNCHANGED not_tracer

\* line 221: ptrace::cont(trace_pid, cont_signal)
LoopCont ==
    /\ Sup.pc = "cont"
    /\ IF Tracee.state = "stopped"
       THEN /\ procs' = [procs EXCEPT ![1].state = "running",
                                      ![1].delivered = Sup.cont_signal]
            /\ threads' = [threads EXCEPT ![1].pc = "wait"]
       ELSE SupPanics /\ UNCHANGED procs
    /\ UNCHANGED <<chan, sent, collector, requests>>
    /\ UNCHANGED not_tracer

\* What the tracee is when it reports status: after an exec its memory is
\* new, with the loader mapped somewhere or not at all; at a SIGTRAP stop its
\* rip is somewhere.  Nothing of its r_debug has been read yet.
AtStatus(p, status, loader, rip) ==
    [p EXCEPT !.status = status,
              !.state = IF status \in StopStatuses THEN "stopped" ELSE "exited",
              !.stops = IF status \in StopStatuses THEN @ - 1 ELSE @,
              !.loader = IF status = PtraceEvent("PTRACE_EVENT_EXEC") THEN loader ELSE @,
              !.int3 = IF status = PtraceEvent("PTRACE_EVENT_EXEC") THEN {} ELSE @,
              !.rip = IF status = Stopped("SIGTRAP") THEN rip ELSE @,
              !.execs = IF status = PtraceEvent("PTRACE_EVENT_EXEC") THEN @ + 1 ELSE @,
              !.r_debug = None]

\* lines 222-223: waitpid returns a status; cont_signal = None
LoopWait ==
    /\ Sup.pc = "wait"
    /\ \E status \in StopStatuses \cup EndStatuses, loader \in LoaderMaps,
          rip \in TrapRips :
          /\ status \in StopStatuses => Tracee.stops > 0
          /\ status # PtraceEvent("PTRACE_EVENT_EXEC") => loader = Tracee.loader
          /\ status # Stopped("SIGTRAP") => rip = Tracee.rip
          /\ procs' = [procs EXCEPT ![1] = AtStatus(@, status, loader, rip)]
    /\ threads' = [threads EXCEPT ![1].pc = "match", ![1].cont_signal = None,
                                  ![1].mark = Len(chan)]
    /\ UNCHANGED <<chan, sent, collector, requests>>
    /\ UNCHANGED not_tracer

\* lines 225-251: the SIGTRAP arm.  At the hook r_debug is read, and when it
\* is consistent the link map is walked from r_map through l_next: every
\* node's l_name is read and sent.  A read of the tracee that fails after
\* `reached` nodes ends the thread by a panic.
ArmTrap ==
    /\ Sup.pc = "match"
    /\ Tracee.status = Stopped("SIGTRAP")
    /\ IF Tracee.rip - 1 = Sup.dl_debug_state_abs_addr
       THEN \E r_state \in {RT_CONSISTENT, RT_ADD} :
               IF r_state = RT_CONSISTENT
               THEN \E link_map \in SeqsUpTo(ChainNames, MaxChain),
                       reached \in 0..MaxChain :
                       /\ reached <= Len(link_map)
                       /\ procs' = [procs EXCEPT
                                       ![1].r_debug = Some([r_state |-> r_state,
                                                            r_map |-> link_map])]
                       /\ chan' = chan \o walk(link_map, reached)
                       /\ IF reached = Len(link_map) THEN SupGoto("cont")
                          ELSE SupPanics
               ELSE /\ procs' = [procs EXCEPT
                                    ![1].r_debug = Some([r_state |-> r_state,
                                                         r_map |-> <<>>])]
                    /\ SupGoto("cont")
                    /\ UNCHANGED chan
       ELSE SupGoto("cont") /\ UNCHANGED <<procs, chan>>
    /\ UNCHANGED <<sent, collector, requests>>
    /\ UNCHANGED not_tracer

\* lines 252-281: a clone, fork or vfork event; getevent, waitpid, detach and
\* the spawn of the child's thread, any of which can fail
ArmFork ==
    /\ Sup.pc = "match"
    /\ Tracee.status \in {PtraceEvent(e) : e \in ForkEvents}
    /\ \E ok \in BOOLEAN : IF ok THEN SupGoto("cont") ELSE SupPanics
    /\ UNCHANGED <<procs, chan, sent, collector, requests>>
    /\ UNCHANGED not_tracer

\* lines 282-284: a stop by a signal other than SIGTRAP
ArmSignal ==
    /\ Sup.pc = "match"
    /\ Tracee.status \in {Stopped(sig) : sig \in StopSignals}
    /\ SupGoto("cont")
    /\ UNCHANGED <<procs, chan, sent, collector, requests>>
    /\ UNCHANGED not_tracer

\* lines 285-302: the three arms that break
ArmExited ==
    /\ Sup.pc = "match"
    /\ Tracee.status \in {Exited, Signaled("SIGKILL", FALSE), Signaled("SIGTERM", FALSE)}
    /\ threads' = [threads EXCEPT ![1].pc = "done", ![1].sender = FALSE]
    /\ UNCHANGED <<procs, chan, sent, collector, requests>>
    /\ UNCHANGED not_tracer

\* lines 303-324: the exec arm: the maps again, the two addresses again, the
\* breakpoint again
ArmExec ==
    /\ Sup.pc = "match"
    /\ Tracee.status = PtraceEvent("PTRACE_EVENT_EXEC")
    /\ IF Tracee.loader = None
       THEN SupPanics /\ UNCHANGED procs
       ELSE /\ threads' = [threads EXCEPT
                              ![1] = [Rebased(@, Tracee.loader.value) EXCEPT
                                         !.pc = "cont",
                                         !.cont_signal = cont_signal_after(Tracee.status)]]
            /\ procs' = [procs EXCEPT
                            ![1] = set_first_byte_at_addr(
                                      @, dl_debug_state_addr + Tracee.loader.value)]
    /\ UNCHANGED <<chan, sent, collector, requests>>
    /\ UNCHANGED not_tracer

\* lines 325-328: any other status, the loop goes on
ArmUnhandled ==
    /\ Sup.pc = "match"
    /\ Tracee.status \in {Signaled("SIGSEGV", TRUE), Signaled("SIGINT", FALSE)}
    /\ SupGoto("cont")
    /\ UNCHANGED <<procs, chan, sent, collector, requests>>
    /\ UNCHANGED not_tracer

-----------------------------------------------------------------------------
(* Tracer::read_string, tracer.rs 357-373.  The memory of the tracee is the  *)
(* bytes mapped from `address` on; ptrace::read gives the word of WORD_SIZE  *)
(* bytes at an address, least significant byte first, and fails when the     *)
(* word is not wholly mapped.                                                *)

MaxMemory == 10   \* bytes mapped from the address of the string on

WORD_SIZE == 8

\* zero, and the letter a
MemoryBytes == {0, 97}

Memories == SeqsUpTo(MemoryBytes, MaxMemory)

\* ptrace::read(pid, address + i)
ptrace_read(memory, i) ==
    IF i + WORD_SIZE <= Len(memory) THEN Some(SubSeq(memory, i + 1, i + WORD_SIZE))
    ELSE None

\* word as u8
low_byte(word) == word[1]

\* word == 0
is_zero_word(word) == \A k \in 1..WORD_SIZE : word[k] = 0

\* CStr::from_bytes_until_nul: the bytes before the first zero byte, one of
\* which there must be
from_bytes_until_nul(bytes) ==
    IF \E k \in 1..Len(bytes) : bytes[k] = 0
    THEN Some(SubSeq(bytes, 1, (CHOOSE k \in 1..Len(bytes) :
                                   bytes[k] = 0 /\ \A j \in 1..(k - 1) : bytes[j] # 0) - 1))
    ELSE None

\* lines 360-367: one turn of the loop
ReadStringLoop ==
    /\ threads[1].pc = "loop"
    /\ LET th == threads[1]
           word == ptrace_read(procs[1].memory, th.i)
       IN  IF word = None
           THEN threads' = [threads EXCEPT ![1].pc = "panic",
                                           ![1].reads = @ \cup {th.i}]
           ELSE threads' = [threads EXCEPT
                               ![1].str_bytes = Append(@, low_byte(word.value)),
                               ![1].reads = @ \cup {th.i},
                               ![1].i = @ + 1,
                               ![1].pc = IF is_zero_word(word.value) THEN "convert"
                                         ELSE "loop"]
    /\ UNCHANGED <<procs, chan, sent, collector, requests>>
    /\ UNCHANGED not_tracer

\* lines 368-372: the bytes up to the first zero byte, as a String
ReadStringReturn ==
    /\ threads[1].pc = "convert"
    /\ LET bytes == from_bytes_until_nul(threads[1].str_bytes)
       IN  IF bytes = None THEN threads' = [threads EXCEPT ![1].pc = "panic"]
           ELSE threads' = [threads EXCEPT ![1].pc = "returned",
                                           ![1].result = bytes.value]
    /\ UNCHANGED <<procs, chan, sent, collector, requests>>
    /\ UNCHANGED not_tracer

-----------------------------------------------------------------------------
(* KernelLocator::extract_cubin_kernels, locator/locator.rs 219-296.         *)
(* The dump is what the disassembler prints for one cubin.  A line is the    *)
(* list of its whitespace-separated fields, so a blank line has none, and    *)
(* the two marker lines are the ones whose trimmed text is "Sections:" and   *)
(* ".section .symtab".                                                       *)

MaxDumpLines == 6   \* lines of one dump

SectionsMarker == <<"Sections:">>
SymtabMarker == <<".section", ".symtab">>
BlankLine == <<>>

\* a row of n fields whose last field is name
Row(n, name) == [k \in 1..n |-> IF k = n THEN name ELSE "0"]

\* a row of the section header table: ten fields, the name last
SectionRow(name) == Row(10, name)

\* a row of the symbol table: seven fields, the name last
SymbolRow(name) == Row(7, name)

DumpLines ==
    {SectionsMarker, SymtabMarker, BlankLine, SectionRow(".text.k1"),
     SectionRow(".nv.info"), SymbolRow(CUBLAS_INTERNAL_CONSTANT)}

Dumps == SeqsUpTo(DumpLines, MaxDumpLines)

\* sh_name.strip_prefix(".text."), tabulated over the names of DumpLines
StripTextPrefix == (".text.k1" :> "k1")

\* sh_name.starts_with(".text.")
starts_with_text(sh_name) == sh_name \in DOMAIN StripTextPrefix

\* fields.nth(n), counted from 0
nth(fields, n) ==
    IF Len(fields) > n THEN Some(fields[n + 1])
    ELSE None

\* line.trim() == ""
is_blank(line) == line = BlankLine

\* The loop over reader.lines(): what it leaves in section_header_output (so)
\* and symtable_output (yo) when it reads dump from line k on.
RECURSIVE ReadFrom(_, _, _, _, _, _)
ReadFrom(dump, k, is_section_start, is_symtab_start, so, yo) ==
    IF k > Len(dump) THEN [section_header_output |-> so, symtable_output |-> yo]
    ELSE LET line == dump[k] IN
         IF is_section_start
         THEN IF is_blank(line)
              THEN ReadFrom(dump, k + 1, FALSE, is_symtab_start, so, yo)
              ELSE ReadFrom(dump, k + 1, TRUE, is_symtab_start,
                            Append(so, line), yo)
         ELSE IF is_symtab_start
         THEN IF is_blank(line)
              THEN [section_header_output |-> so, symtable_output |-> yo]
              ELSE ReadFrom(dump, k + 1, FALSE, TRUE, so, Append(yo, line))
         ELSE IF line = SectionsMarker
         THEN ReadFrom(dump, k + 1, TRUE, is_symtab_start, so, yo)
         ELSE IF line = SymtabMarker
         THEN ReadFrom(dump, k + 1, FALSE, TRUE, so, yo)
         ELSE ReadFrom(dump, k + 1, FALSE, is_symtab_start, so, yo)

\* &v[1..]: every element but the first; the slice panics on an empty vector
HasTail(v) == Len(v) >= 1

\* the vector itself, where the code takes the rows after the first
whole(v) == v

\* &section_header_output[1..]
section_rows(v) == SubSeq(v, 2, Len(v))

\* &symtable_output[1..]
symtab_rows(v) == SubSeq(v, 2, Len(v))

\* fields.nth(9).unwrap() succeeds on every row of the section header table
SectionRowsUnwrap(so) ==
    \A k \in 1..Len(section_rows(so)) : nth(section_rows(so)[k], 9) # None

\* the names the first loop inserts
SectionKernels(so) ==
    {StripTextPrefix[nth(section_rows(so)[k], 9).value] :
        k \in {j \in 1..Len(section_rows(so)) :
                  starts_with_text(nth(section_rows(so)[j], 9).value)}}

\* the second loop: rows without a 7th field are skipped with a warning, the
\* first row whose 7th field is the constant is inserted and ends the loop
SymtabKernels(yo) ==
    IF \E k \in 1..Len(symtab_rows(yo)) :
          /\ nth(symtab_rows(yo)[k], 6) # None
          /\ nth(symtab_rows(yo)[k], 6).value = CUBLAS_INTERNAL_CONSTANT
    THEN {CUBLAS_INTERNAL_CONSTANT}
    ELSE {}

not_extractor == <<locator_vars, elf, tracer_vars, recon>>

\* lines 227-260: the dump is read into the two vectors
ExtractorRead ==
    /\ extractor.pc = "call"
    /\ extractor' =
          [pc |-> "read", dump |-> extractor.dump,
           out |-> ReadFrom(extractor.dump, 1, FALSE, FALSE, <<>>, <<>>),
           kernel_names |-> {}]
    /\ UNCHANGED not_extractor

\* lines 262-269: the loop over the section header rows
ExtractorSections ==
    /\ extractor.pc = "read"
    /\ LET so == extractor.out.section_header_output
       IN  IF HasTail(so) /\ SectionRowsUnwrap(so)
           THEN extractor' = [extractor EXCEPT !.pc = "sections",
                                               !.kernel_names = SectionKernels(so)]
           ELSE extractor' = [extractor EXCEPT !.pc = "panicked"]
    /\ UNCHANGED not_extractor

\* lines 271-295: the loop over the symbol table rows, and the return
ExtractorSymtab ==
    /\ extractor.pc = "sections"
    /\ LET yo == extractor.out.symtable_output
       IN  IF HasTail(yo)
           THEN extractor' =
                   [extractor EXCEPT !.pc = "returned",
                                     !.kernel_names = @ \cup SymtabKernels(yo)]
           ELSE extractor' = [extractor EXCEPT !.pc = "panicked"]
    /\ UNCHANGED not_extractor

-----------------------------------------------------------------------------
(* Reconstructor::new and Reconstructor::rewrite, reconstructor.rs 13-30,    *)
(* as main.rs `reconstruct` calls them.  The file system is a function from  *)
(* the paths of the files that exist to their bytes; offsets count from 0.   *)

MaxFileLen == 2     \* bytes of the source file
MaxSpans == 1       \* spans of one rewrite

SrcPath == "/usr/lib/libdemo.so"

\* output_dir/libdemo.so, for an output directory that is another directory
\* or the one of the source
DstPaths == {"/out/libdemo.so", SrcPath}

FileBytes == {1, 127}

\* what an older run left at the destination
StaleBytes == <<127, 127, 127>>

Spans == [start : 0..(MaxFileLen + 1), end : 0..(MaxFileLen + 1)]

\* start..end of the inner loop
SpanOffsets(span) == {i \in 0..(MaxFileLen + 1) : span.start <= i /\ i < span.end}

AllOffsets(spans) == UNION {SpanOffsets(spans[k]) : k \in 1..Len(spans)}

\* std::fs::copy when source and destination are one file: the destination
\* is opened with truncation before the source is read, so the file is left
\* empty; a platform whose copy notices the identity leaves the file alone
\* or reports an error
CopyOntoItself == {"truncated", "unchanged", "error"}

\* so_data after the loops: 0x01 at the offsets of the spans
Rewritten(so_data, spans) ==
    [k \in 1..Len(so_data) |-> IF (k - 1) \in AllOffsets(spans) THEN 1 ELSE so_data[k]]

not_recon == <<locator_vars, elf, tracer_vars, extractor>>

\* Reconstructor::new: std::fs::copy(src_so_path, dst_so_path).unwrap()
ReconNew ==
    /\ recon.pc = "call"
    /\ IF recon.dst = recon.src
       THEN \E outcome \in CopyOntoItself :
               CASE outcome = "truncated" ->
                       recon' = [recon EXCEPT !.pc = "new",
                                              !.files = [@ EXCEPT ![recon.dst] = <<>>]]
                 [] outcome = "unchanged" -> recon' = [recon EXCEPT !.pc = "new"]
                 [] outcome = "error" -> recon' = [recon EXCEPT !.pc = "panicked"]
       ELSE recon' =
               [recon EXCEPT !.pc = "new",
                             !.files = [p \in DOMAIN recon.files \cup {recon.dst} |->
                                           IF p = recon.dst THEN recon.files[recon.src]
                                           ELSE recon.files[p]]]
    /\ UNCHANGED not_recon

\* Reconstructor::rewrite: read, the loops, write; so_data[i] panics on an
\* offset past the end, before anything is written
ReconRewrite ==
    /\ recon.pc = "new"
    /\ LET so_data == recon.files[recon.dst]
       IN  IF \A i \in AllOffsets(recon.spans) : i < Len(so_data)
           THEN recon' = [recon EXCEPT !.pc = "rewritten",
                                       !.files = [@ EXCEPT ![recon.dst] =
                                                     Rewritten(so_data, recon.spans)]]
           ELSE recon' = [recon EXCEPT !.pc = "panicked"]
    /\ UNCHANGED not_recon

-----------------------------------------------------------------------------
(* Initial states *)

ElfIdle == [phase |-> "idle"]

\* no tracer, no extractor call, no reconstructor
OthersIdle ==
    /\ procs = <<>>
    /\ threads = <<>>
    /\ chan = <<>>
    /\ sent = {}
    /\ collector = [pc |-> "idle"]
    /\ requests = {}
    /\ extractor = [pc |-> "idle"]
    /\ recon = [pc |-> "idle"]

LocatorIdle ==
    /\ pc = "idle"
    /\ so_path = "/usr/lib/libdemo.so"
    /\ gpu_code_start_offset = 0
    /\ gpu_code_len = 0
    /\ offset = 0
    /\ header = [header_size |-> 0, fat_size |-> 0]
    /\ element_offset = 0
    /\ elements = <<>>
    /\ regions = <<>>
    /\ cubin_paths = <<>>
    /\ element_span = <<>>
    /\ element_kernels = <<>>
    /\ cubin_dump = <<>>
    /\ query = NoQuery

InitLocator(d) ==
    /\ dom = d
    /\ pc = "gpu_code"
    /\ so_path \in SoPaths(d)
    /\ gpu_code_start_offset \in StartOffsets(d)
    /\ gpu_code_len \in BlobLens(d)
    /\ offset = 0
    /\ header = [header_size |-> 0, fat_size |-> 0]
    /\ element_offset = 0
    /\ elements = <<>>
    /\ regions = <<>>
    /\ cubin_paths = <<>>
    /\ element_span = <<>>
    /\ element_kernels = <<>>
    /\ cubin_dump = <<>>
    /\ query = NoQuery
    /\ elf = ElfIdle
    /\ OthersIdle

Init == InitLocator("select")

InitLayout == InitLocator("layout")

\* The ELF reader on its own: a file, ELF64::new, then lookups.
InitElfOver(d, files) ==
    /\ dom = d
    /\ LocatorIdle
    /\ OthersIdle
    /\ \E file \in files, overflow_checks \in BOOLEAN :
          elf = [phase |-> "file", file |-> file,
                 overflow_checks |-> overflow_checks,
                 executable_phdr |-> 0, addr_offset_diff |-> Word(0, 0, 0, 0),
                 call |-> [fn |-> "none"]]

InitElf == InitElfOver("elf", ElfFiles)

InitElfTables == InitElfOver("elf tables", ElfTableFiles)

NextElf ==
    \/ ElfNew
    \/ \E symbol_bytes \in LookupNames :
          GetSymbolOffset(symbol_bytes) \/ GetSymbolAddr(symbol_bytes)
    \/ \E section_name \in LookupSections :
          GetSectionOffset(section_name) \/ GetSectionSize(section_name)

SpecElf == InitElf /\ [][NextElf]_vars

SpecElfTables == InitElfTables /\ [][NextElf]_vars

\* The tracer on its own.
InitTracerOver(d) ==
    /\ dom = d
    /\ LocatorIdle
    /\ elf = ElfIdle
    /\ extractor = [pc |-> "idle"]
    /\ recon = [pc |-> "idle"]
    /\ procs = <<>>
    /\ threads = <<>>
    /\ chan = <<>>
    /\ sent = {}
    /\ requests = {}
    /\ collector = [pc |-> "fork", sender |-> FALSE, loaded_sos |-> {},
                    alive_at_read |-> {}]

InitTracer == InitTracerOver("tracer")

\* The collector on its own: the loop of trace over a channel that holds
\* some messages and whose Senders are all dropped.
InitCollect ==
    /\ dom = "collect"
    /\ LocatorIdle
    /\ elf = ElfIdle
    /\ extractor = [pc |-> "idle"]
    /\ recon = [pc |-> "idle"]
    /\ procs = <<>>
    /\ threads = <<>>
    /\ chan \in SeqsUpTo(SoNames, MaxMessages)
    /\ sent = {[thread |-> 1, so_path |-> chan[k]] : k \in 1..Len(chan)}
    /\ requests = {}
    /\ collector = [pc |-> "recv", sender |-> FALSE, loaded_sos |-> {},
                    alive_at_read |-> {}]

NextCollect == Collect \/ CollectEnd \/ ReadLog

SpecCollect == InitCollect /\ [][NextCollect]_vars

SupervisorStep(t) ==
    \/ Attach(t) \/ Prepare(t) \/ Cont(t)
    \/ WaitTrap(t) \/ WaitForkEvent(t) \/ ForkWait(t) \/ ForkDetach(t)
    \/ ForkSpawn(t) \/ WaitExec(t) \/ WaitSignal(t) \/ WaitExited(t)
    \/ WaitUnhandled(t)

NextTracer ==
    \/ TraceFork \/ TraceSetOptions \/ TraceDetach \/ TraceSpawn
    \/ Collect \/ CollectEnd \/ ReadLog
    \/ \E t \in 1..MaxPids : SupervisorStep(t) \/ ProcessExits(t)

SpecTracer == InitTracer /\ [][NextTracer]_vars

\* Threads that can run do run, and a running process stops or ends.
SpecTracerFair == SpecTracer /\ WF_vars(NextTracer)

\* extract_cubin_kernels on its own, over every dump of the domain.
InitExtract ==
    /\ dom = "extract"
    /\ LocatorIdle
    /\ elf = ElfIdle
    /\ procs = <<>>
    /\ threads = <<>>
    /\ chan = <<>>
    /\ sent = {}
    /\ requests = {}
    /\ collector = [pc |-> "idle"]
    /\ recon = [pc |-> "idle"]
    /\ \E dump \in Dumps : extractor = [pc |-> "call", dump |-> dump]

NextExtract == ExtractorRead \/ ExtractorSections \/ ExtractorSymtab

SpecExtract == InitExtract /\ [][NextExtract]_vars

\* The reconstructor on its own: a source file, a destination path where an
\* older file may lie, and the spans of the span file.
InitRecon ==
    /\ dom = "reconstruct"
    /\ LocatorIdle
    /\ elf = ElfIdle
    /\ procs = <<>>
    /\ threads = <<>>
    /\ chan = <<>>
    /\ sent = {}
    /\ requests = {}
    /\ collector = [pc |-> "idle"]
    /\ extractor = [pc |-> "idle"]
    /\ \E source \in SeqsUpTo(FileBytes, MaxFileLen), dst \in DstPaths,
          spans \in SeqsUpTo(Spans, MaxSpans), stale \in BOOLEAN :
          recon = [pc |-> "call", src |-> SrcPath, dst |-> dst, spans |-> spans,
                   source |-> source,
                   files |-> [p \in {SrcPath} \cup (IF stale THEN {dst} ELSE {}) |->
                                 IF p = SrcPath THEN source ELSE StaleBytes]]

NextRecon == ReconNew \/ ReconRewrite

SpecRecon == InitRecon /\ [][NextRecon]_vars

\* One supervisor on its own: the thread has attached to its tracee, whose
\* maps hold the loader somewhere or not at all.
InitSupervisor ==
    /\ dom = "supervisor"
    /\ LocatorIdle
    /\ elf = ElfIdle
    /\ extractor = [pc |-> "idle"]
    /\ recon = [pc |-> "idle"]
    /\ chan = <<>>
    /\ sent = {}
    /\ requests = {}
    /\ collector = [pc |-> "recv"]
    /\ threads = <<[pc |-> "prepare", sender |-> TRUE, cont_signal |-> None,
                    dl_debug_state_abs_addr |-> 0, r_debug_abs_addr |-> 0,
                    mark |-> 0]>>
    /\ \E loader \in LoaderMaps :
          procs = <<[state |-> "stopped", tracer |-> 1, stops |-> MaxStops,
                     status |-> AttachStop, loader |-> loader, int3 |-> {},
                     rip |-> dl_debug_state_addr + 4096 + 1, r_debug |-> None,
                     execs |-> 0, delivered |-> None]>>

NextSupervisor ==
    \/ LoopPrepare \/ LoopCont \/ LoopWait
    \/ ArmTrap \/ ArmFork \/ ArmSignal \/ ArmExited \/ ArmExec \/ ArmUnhandled

SpecSupervisor == InitSupervisor /\ [][NextSupervisor]_vars

\* read_string on its own, over every memory of the domain.
InitReadString ==
    /\ dom = "read_string"
    /\ LocatorIdle
    /\ elf = ElfIdle
    /\ extractor = [pc |-> "idle"]
    /\ recon = [pc |-> "idle"]
    /\ chan = <<>>
    /\ sent = {}
    /\ requests = {}
    /\ collector = [pc |-> "recv"]
    /\ threads = <<[pc |-> "loop", i |-> 0, str_bytes |-> <<>>, reads |-> {},
                    result |-> <<>>]>>
    /\ \E memory \in Memories : procs = <<[memory |-> memory]>>

NextReadString == ReadStringLoop \/ ReadStringReturn

SpecReadString == InitReadString /\ [][NextReadString]_vars

Next == GpuCodeLoop \/ RegionLoop \/ ExtractAllCubins \/ NewLocator \/ Locate

Spec == Init /\ [][Next]_vars

SpecLayout == InitLayout /\ [][Next]_vars


-----------------------------------------------------------------------------
(* Properties of the locator *)

ElementIndices == {<<i, j>> \in (1..Len(regions)) \X (1..MaxElements + MaxLayoutElements) :
                      j <= Len(regions[i].elements)}

ElementAt(ij) == regions[ij[1]].elements[ij[2]]

CapsOf(region) ==
    {region.elements[k].header.capability : k \in 1..Len(region.elements)}

\* <<i, j>> was pushed by the query and its span is in the returned list
Emitted(ij) ==
    \E k \in 1..Len(query.pushed) :
        /\ query.pushed[k] = ij
        /\ query.deletable_spans[k] = element_span[ij[1]][ij[2]]

Pushed(ij) == \E k \in 1..Len(query.pushed) : query.pushed[k] = ij

\* the used kernels meet the element's kernels, or the libcublas workaround applies
Retained(ij) ==
    \/ query.detected_kernels \cap element_kernels[ij[1]][ij[2]] # {}
    \/ /\ ContainsLibcublas(so_path)
       /\ CUBLAS_INTERNAL_CONSTANT \in element_kernels[ij[1]][ij[2]]

BestOf(i) == find_most_fit_capability(regions[i], query.compute_capability)

\* C1, as stated: locate_deletable_file_spans(U, t) keeps exactly the
\* elements e with e.capability = find_most_fit_capability(t) of e's region,
\* e.file_type = 2 and (U meets e.kernels, or so_path contains "libcublas"
\* and the sentinel is in e.kernels); the span of every other element is
\* emitted.
C1_KeepsExactlyUsedCubins ==
    query.asked =>
        \A ij \in ElementIndices :
            IF /\ ElementAt(ij).header.capability = BestOf(ij[1])
               /\ ElementAt(ij).header.file_type = 2
               /\ Retained(ij)
            THEN ~Pushed(ij)
            ELSE Emitted(ij)

\* C1, amended: locate_deletable_file_spans(U, t) keeps exactly the elements e
\* with e.capability = find_most_fit_capability(t) of e's region and
\* (e.file_type # 2, or U meets e.kernels, or so_path contains "libcublas" and
\* the sentinel is in e.kernels); the span of every other element is emitted.
C1_KeepsExactlyFittingNonCubinOrUsed ==
    query.asked =>
        \A ij \in ElementIndices :
            IF /\ ElementAt(ij).header.capability = BestOf(ij[1])
               /\ (ElementAt(ij).header.file_type # 2 \/ Retained(ij))
            THEN ~Pushed(ij)
            ELSE Emitted(ij)

\* A query on a libcublas library that keeps a fitting non-cubin element,
\* keeps a cubin for the sentinel alone, and emits another element.
C1_Witness ==
    /\ query.asked
    /\ ContainsLibcublas(so_path)
    /\ \E ij \in ElementIndices :
          /\ ElementAt(ij).header.capability = BestOf(ij[1])
          /\ ElementAt(ij).header.file_type = 2
          /\ query.detected_kernels \cap element_kernels[ij[1]][ij[2]] = {}
          /\ CUBLAS_INTERNAL_CONSTANT \in element_kernels[ij[1]][ij[2]]
          /\ ~Pushed(ij)
    /\ \E ij \in ElementIndices :
          /\ ElementAt(ij).header.capability = BestOf(ij[1])
          /\ ElementAt(ij).header.file_type # 2
          /\ ~Pushed(ij)

\* C2: an element whose capability equals its region's most-fit capability
\* and whose file_type is not 2 is never in the output of
\* locate_deletable_file_spans, for any used-kernel set and any target.
C2_FittingNonCubinNeverDeleted ==
    query.asked =>
        \A ij \in ElementIndices :
            (/\ ElementAt(ij).header.capability = BestOf(ij[1])
             /\ ElementAt(ij).header.file_type # 2)
            => ~Pushed(ij)

\* A query that kept a fitting non-cubin element while it emitted another
\* element of the same region.
C2_Witness ==
    /\ query.asked
    /\ \E ij \in ElementIndices :
          /\ ElementAt(ij).header.capability = BestOf(ij[1])
          /\ ElementAt(ij).header.file_type # 2
          /\ query.detected_kernels # {}
          /\ \E other \in ElementIndices : other[1] = ij[1] /\ Emitted(other)

\* region i has no element with capability <= the target
NoFit(i) == \A c \in CapsOf(regions[i]) : c > query.compute_capability

\* C3, as stated: when a region has no element with capability <= target
\* (find_most_fit_capability returns 0), no span of that region is emitted.
C3_NoFitRegionEmitsNothing ==
    query.asked =>
        \A i \in 1..Len(regions) :
            NoFit(i) => \A ij \in ElementIndices : ij[1] = i => ~Pushed(ij)

\* C3, amended: when a region has no element with capability <= target,
\* find_most_fit_capability returns 0 and the span of every element of the
\* region is emitted.
C3_NoFitRegionEmitsAll ==
    query.asked =>
        \A i \in 1..Len(regions) :
            NoFit(i) => /\ query.most_fit_cap[i] = 0
                        /\ \A ij \in ElementIndices : ij[1] = i => Emitted(ij)

\* A query with a target below every capability of a region of two elements,
\* beside a region that has a fitting element.
C3_Witness ==
    /\ query.asked
    /\ \E i \in 1..Len(regions) :
          /\ NoFit(i)
          /\ Len(regions[i].elements) >= 1
          /\ \A j \in 1..Len(regions[i].elements) : Emitted(<<i, j>>)
    /\ \E i \in 1..Len(regions) : ~NoFit(i)

\* every element span, region by region and element by element
AllSpans == Flatten(element_span)

\* the place of element <<i, j>> in AllSpans
RECURSIVE ElementsBefore(_)
ElementsBefore(i) ==
    IF i <= 1 THEN 0 ELSE ElementsBefore(i - 1) + Len(regions[i - 1].elements)

Place(ij) == ElementsBefore(ij[1]) + ij[2]

\* C4: the output of locate_deletable_file_spans is a subsequence of the list
\* of all element spans (regions in file order, elements in file order within
\* a region): each output span is the unmodified span of an element, the
\* elements are taken in strictly increasing place, so none twice.
C4_OutputIsSubsequence ==
    query.asked =>
        /\ Len(query.deletable_spans) = Len(query.pushed)
        /\ \A k \in 1..Len(query.pushed) :
              /\ query.pushed[k] \in ElementIndices
              /\ query.deletable_spans[k] = AllSpans[Place(query.pushed[k])]
        /\ \A k, l \in 1..Len(query.pushed) :
              k < l => Place(query.pushed[k]) < Place(query.pushed[l])

\* A query that emitted the spans of elements of two regions.
C4_Witness ==
    /\ query.asked
    /\ Len(query.pushed) >= 2
    /\ query.pushed[1][1] # query.pushed[Len(query.pushed)][1]
    /\ query.deletable_spans[1] # query.deletable_spans[2]

\* C5: find_most_fit_capability(t) is the maximum capability among the
\* region's elements with capability <= t, and 0 when there is none.
C5_MostFitIsMaxBelowTarget ==
    query.asked =>
        \A i \in 1..Len(regions) :
            query.most_fit_cap[i] =
                SetMax({c \in CapsOf(regions[i]) : c <= query.compute_capability}
                       \cup {0})

\* A query on a region whose first element fits best, whose second fits too
\* and is smaller, beside a capability above the target elsewhere or not.
C5_Witness ==
    /\ query.asked
    /\ \E i \in 1..Len(regions) :
          /\ Len(regions[i].elements) >= 2
          /\ regions[i].elements[1].header.capability = 75
          /\ regions[i].elements[2].header.capability = 70
          /\ query.most_fit_cap[i] = 75

\* the cubin elements, region by region and element by element
CubinElements ==
    SelectSeq(Flatten([i \in 1..Len(regions) |->
                          [j \in 1..Len(regions[i].elements) |-> <<i, j>>]]),
              LAMBDA ij : ElementAt(ij).header.file_type = 2)

\* C9, as stated: whenever KernelLocator::new returns, the number of cubin
\* files collected equals the number of elements with file_type = 2, the k-th
\* such element carries the kernel set of the k-th cubin, and the other
\* elements carry an empty kernel set.
C9_CubinsAlignWithCubinElements ==
    pc = "ready" =>
        /\ Len(cubin_paths) = Len(CubinElements)
        /\ \A k \in 1..Len(CubinElements) :
              /\ k <= Len(cubin_dump)
              /\ cubin_dump[k].path = cubin_paths[k]
              /\ element_kernels[CubinElements[k][1]][CubinElements[k][2]]
                 = cubin_dump[k].kernels
        /\ \A ij \in ElementIndices :
              ElementAt(ij).header.file_type # 2
              => element_kernels[ij[1]][ij[2]] = {}


\* the file offset at which region r starts: gpu_code_start_offset plus the
\* on-disk size (fat_size + 16) of the regions before it
RECURSIVE RegionBase(_)
RegionBase(r) ==
    IF r <= 1 THEN gpu_code_start_offset
    ELSE RegionBase(r - 1) + regions[r - 1].header.fat_size + 16

\* the sum of offset + size over the elements before element e of region r
RECURSIVE AdvanceBefore(_, _)
AdvanceBefore(r, e) ==
    IF e <= 1 THEN 0
    ELSE AdvanceBefore(r, e - 1) + regions[r].elements[e - 1].header.offset
         + regions[r].elements[e - 1].header.size

\* C6, as stated: whenever GPUCode::new returns, the sum over the parsed
\* regions of header_size + fat_size equals the length of the blob.
C6_RegionSizesSumToBlobLength ==
    pc \in {"extract", "new", "ready"} =>
        SumSeq([i \in 1..Len(regions) |->
                   regions[i].header.header_size + regions[i].header.fat_size])
        = gpu_code_len

\* C7, as stated: every span recorded by KernelLocator::new lies inside its
\* region's byte range [base, base + 16 + fat_size), and the spans of two
\* distinct elements of a region do not overlap.
C7_SpansInsideRegionAndDisjoint ==
    pc = "ready" =>
        \A ij \in ElementIndices :
            LET span == element_span[ij[1]][ij[2]] IN
            /\ RegionBase(ij[1]) <= span.start
            /\ span.start <= span.end
            /\ span.end <= RegionBase(ij[1]) + 16 + regions[ij[1]].header.fat_size
            /\ \A kl \in ElementIndices :
                  (kl[1] = ij[1] /\ kl[2] # ij[2]) =>
                      \/ span.end <= element_span[kl[1]][kl[2]].start
                      \/ element_span[kl[1]][kl[2]].end <= span.start

\* C8: for every region r and element e, KernelLocator::new records
\* start = B_r + r.header_size + e.offset + (the sum of p.offset + p.size over
\* the elements p before e in r) and end = start + e.size, where B_r is
\* gpu_code_start_offset plus the sizes fat_size + 16 of the earlier regions.
C8_SpanFormula ==
    pc = "ready" =>
        /\ Len(element_span) = Len(regions)
        /\ \A ij \in ElementIndices :
              /\ Len(element_span[ij[1]]) = Len(regions[ij[1]].elements)
              /\ element_span[ij[1]][ij[2]].start =
                    RegionBase(ij[1]) + regions[ij[1]].header.header_size
                    + ElementAt(ij).header.offset + AdvanceBefore(ij[1], ij[2])
              /\ element_span[ij[1]][ij[2]].end =
                    element_span[ij[1]][ij[2]].start + ElementAt(ij).header.size

\* A locator over two regions whose second region holds a second element
\* after a first element with a payload, at a non-zero section offset.
C8_Witness ==
    /\ pc = "ready"
    /\ gpu_code_start_offset > 0
    /\ Len(regions) >= 2
    /\ Len(regions[2].elements) >= 2
    /\ regions[2].elements[1].header.size > 0
    /\ regions[2].elements[2].header.size > 0


-----------------------------------------------------------------------------
(* Properties of the ELF reader *)

\* the segment ELF64::new chose, and delta = p_vaddr - p_offset modulo 2^64
ChosenSegment == elf.file.segments[FindExecutable(elf.file.segments, 1)]
Delta == WrappingSub(ChosenSegment.p_vaddr, ChosenSegment.p_offset)

\* some symbol of a present table has this name
Defined(symbol_bytes) ==
    \/ /\ elf.file.symtab.present
       /\ \E k \in 1..Len(elf.file.symtab.symbols) :
             elf.file.symtab.symbols[k].name = symbol_bytes
    \/ /\ elf.file.dynsym.present
       /\ \E k \in 1..Len(elf.file.dynsym.symbols) :
             elf.file.dynsym.symbols[k].name = symbol_bytes

\* C10, as stated: on an ELF with an R+X load segment, for every symbol
\* that is found, get_symbol_addr returns get_symbol_offset + delta, computed
\* without an overflow failure whatever the sign of delta and the st_value;
\* and get_symbol_addr is None exactly when get_symbol_offset is None.
C10_AddrIsOffsetPlusDelta ==
    (elf.phase \in {"ready", "panic"} /\ elf.executable_phdr # 0
     /\ elf.call.fn = "get_symbol_addr") =>
        /\ Defined(elf.call.symbol) =>
              /\ elf.call.offset.kind = "some"
              /\ elf.call.result = Some(WrappingAdd(elf.call.offset.value, Delta))
        /\ (elf.call.result = None) <=> (elf.call.offset = None)


\* the index of the first symbol of a table with this name, 0 when none
FirstMatch(table, symbol_bytes) ==
    IF table.present /\ \E k \in 1..Len(table.symbols) :
                            table.symbols[k].name = symbol_bytes
    THEN CHOOSE k \in 1..Len(table.symbols) :
            /\ table.symbols[k].name = symbol_bytes
            /\ \A h \in 1..(k - 1) : table.symbols[h].name # symbol_bytes
    ELSE 0

\* C11: whenever get_symbol_offset(name) returns, the result is st_value -
\* delta (modulo 2^64) of the first symbol of the static table named name;
\* of the first such symbol of the dynamic table when the static table is
\* absent or has no match; None when neither table has a match.
C11_StaticFirstThenDynamic ==
    (elf.phase = "ready" /\ elf.call.fn = "get_symbol_offset") =>
        LET s == FirstMatch(elf.file.symtab, elf.call.symbol)
            d == FirstMatch(elf.file.dynsym, elf.call.symbol)
        IN  elf.call.result =
               IF s # 0
               THEN Some(WrappingSub(elf.file.symtab.symbols[s].st_value, Delta))
               ELSE IF d # 0
                    THEN Some(WrappingSub(elf.file.dynsym.symbols[d].st_value, Delta))
                    ELSE None

\* a returned lookup of a name that the static table holds twice, with
\* different values, and that the dynamic table holds too
C11_Witness ==
    /\ elf.phase = "ready"
    /\ elf.call.fn = "get_symbol_offset"
    /\ elf.call.result.kind = "some"
    /\ elf.file.symtab.present
    /\ Len(elf.file.symtab.symbols) = 2
    /\ elf.file.symtab.symbols[1].name = elf.call.symbol
    /\ elf.file.symtab.symbols[2].name = elf.call.symbol
    /\ elf.file.symtab.symbols[1].st_value # elf.file.symtab.symbols[2].st_value
    /\ FirstMatch(elf.file.dynsym, elf.call.symbol) # 0
    /\ elf.file.dynsym.symbols[1].st_value # elf.file.symtab.symbols[1].st_value

\* C12, as stated: the reader panics only on a file without a PT_LOAD
\* segment whose flags are exactly R|X; on a file with such a segment
\* neither ELF64::new nor any lookup panics.
C12_PanicsOnlyWithoutExecutableSegment ==
    elf.phase = "panic" => FindExecutable(elf.file.segments, 1) = 0


-----------------------------------------------------------------------------
(* Properties of the tracer *)

SupervisorEnded(t) == threads[t].pc \in {"unborn", "done", "panic"}

\* what the collector makes of everything that was sent
CollectedFromSent ==
    {abs_so_path(m.so_path) : m \in {x \in sent : is_collected(x.so_path)}}

\* C13: once the collector has left its loop over the channel, every
\* supervisor thread has ended, none starts later, and loaded_sos is the
\* union over all threads of the filtered and normalized paths they sent.
C13_DrainsAfterAllSupervisors ==
    collector.pc \in {"read_log", "done"} =>
        /\ \A t \in DOMAIN threads : SupervisorEnded(t)
        /\ collector.loaded_sos = CollectedFromSent

\* two supervisors have sent, both paths are in the result
C13_Witness ==
    /\ collector.pc = "done"
    /\ \E m, n \in sent : m.thread # n.thread /\ m.so_path # n.so_path
    /\ Cardinality(collector.loaded_sos) = 2

\* C14, as stated: when the kernel log is read every process of the traced
\* tree has exited, also when a supervisor thread ended by a fatal error.
C14_LogReadAfterTreeExited ==
    collector.pc = "done" => collector.alive_at_read = {}

\* an absolute path that leads to itself
Canonical(path) == path.absolute /\ Resolve(path) = path.parts

\* C15, as stated: every element of loaded_sos is an absolute, canonical
\* path of an existing file and does not name the shim library, whether the
\* loader reported it as absolute or as relative.
C15_LoadedSosCanonical ==
    \A path \in collector.loaded_sos :
        /\ Canonical(path)
        /\ Resolve(path) \in RegularFiles
        /\ ~contains_shim(path)

\* a step in which the supervisor thread t panics
PanicsIn(t) ==
    /\ t \in DOMAIN threads
    /\ threads[t].pc # "panic"
    /\ threads'[t].pc = "panic"

\* ... leaves every other thread, and the process it traces, as they were
NoCollateral(t) ==
    \A u \in DOMAIN threads \ {t} :
        /\ threads'[u] = threads[u]
        /\ procs[u].tracer = u => procs'[u] = procs[u]

\* C16: a fatal error of one supervisor ends that thread only; the other
\* supervisors go on, the collector ends, and what the others sent is
\* reported.
C16_FatalErrorIsLocal ==
    /\ [][\A t \in 1..MaxPids : PanicsIn(t) => NoCollateral(t)]_vars
    /\ <>(collector.pc = "done")
    /\ [](collector.pc = "done" => collector.loaded_sos = CollectedFromSent)

\* the root's supervisor panicked; the supervisor of a child went on to the
\* normal end and its path is reported
C16_Witness ==
    /\ collector.pc = "done"
    /\ threads[1].pc = "panic"
    /\ \E u \in DOMAIN threads :
          /\ threads[u].pc = "done"
          /\ \E m \in sent : m.thread = u /\ abs_so_path(m.so_path) \in collector.loaded_sos

\* C20: no ptrace request is ever made for a pid that another thread
\* traces, and a supervisor about to attach finds its pid without tracer:
\* the thread that held it has detached.
C20_OneTracerPerPid ==
    /\ requests = {}
    /\ \A t \in DOMAIN threads : threads[t].pc = "attach" => procs[t].tracer = NoTracer

\* a child handed over: its own supervisor traces it while the supervisor
\* of the root, which held it first, still traces the root
C20_Witness ==
    /\ Len(procs) >= 2
    /\ procs[2].tracer = 2
    /\ threads[2].pc = "wait"
    /\ procs[1].tracer = 1

-----------------------------------------------------------------------------
(* Properties of extract_cubin_kernels *)

SetMin(S) == CHOOSE m \in S : \A x \in S : m <= x

\* line i of dump d is a row of a block opened by marker: it is not blank
\* and a marker line precedes it with no blank line in between
BlockRowAt(d, marker, i) ==
    /\ d[i] # BlankLine
    /\ \E m \in 1..(i - 1) :
          d[m] = marker /\ \A k \in (m + 1)..i : d[k] # BlankLine

\* row i is the first row of its block: the line before it opens the block
FirstRowAt(d, marker, i) ==
    /\ BlockRowAt(d, marker, i)
    /\ d[i - 1] = marker
    /\ ~BlockRowAt(d, marker, i - 1)

\* the name a section header row gives, a set of none or one
TextNameOf(line) ==
    IF Len(line) >= 10 /\ line[10] \in DOMAIN StripTextPrefix
    THEN {StripTextPrefix[line[10]]}
    ELSE {}

IsConstantRow(line) == Len(line) >= 7 /\ line[7] = CUBLAS_INTERNAL_CONSTANT

\* the set of the statement: the names of the rows of a Sections block after
\* its first row, and the constant when a row of a symbol table block has it
StatedKernels(d) ==
    UNION {TextNameOf(d[i]) :
              i \in {j \in 1..Len(d) : /\ BlockRowAt(d, SectionsMarker, j)
                                       /\ ~FirstRowAt(d, SectionsMarker, j)}}
    \cup (IF \E i \in 1..Len(d) : /\ BlockRowAt(d, SymtabMarker, i)
                                  /\ IsConstantRow(d[i])
          THEN {CUBLAS_INTERNAL_CONSTANT} ELSE {})

\* C17 as stated: a call that returns gives the names of the rows of the
\* Sections block after its first row, together with the constant exactly
\* when a row of the `.section .symtab` block has it as its 7th field.
C17_ReturnsStatedKernels ==
    extractor.pc = "returned" => extractor.kernel_names = StatedKernels(extractor.dump)

\* the line that opens the symbol table: the first `.section .symtab` line
\* that is not a row of a Sections block
SymtabOpens(d) ==
    {i \in 1..Len(d) : d[i] = SymtabMarker /\ ~BlockRowAt(d, SectionsMarker, i)}

\* the rows of the Sections blocks before the symbol table opens
SectionRowsRead(d) ==
    {i \in 1..(SetMin(SymtabOpens(d)) - 1) : BlockRowAt(d, SectionsMarker, i)}

\* the rows of the symbol table after its first: the lines from the second
\* after the opening line up to the next blank line or the end of the dump
SymtabRowsRead(d) ==
    {i \in (SetMin(SymtabOpens(d)) + 2)..Len(d) :
        \A k \in (SetMin(SymtabOpens(d)) + 1)..i : d[k] # BlankLine}

ReadKernels(d) ==
    UNION {TextNameOf(d[i]) :
              i \in SectionRowsRead(d) \ {SetMin(SectionRowsRead(d))}}
    \cup (IF \E i \in SymtabRowsRead(d) : IsConstantRow(d[i])
          THEN {CUBLAS_INTERNAL_CONSTANT} ELSE {})

\* C17, amended: a call that returns has read a symbol table and at least
\* one Sections row before it; the result is the names of the Sections rows
\* read before the symbol table opens, the very first of them left out,
\* together with the constant exactly when a row of the symbol table after
\* its first row has it as its 7th field.
C17_ReturnsReadKernels ==
    extractor.pc = "returned" =>
        /\ SymtabOpens(extractor.dump) # {}
        /\ SectionRowsRead(extractor.dump) # {}
        /\ extractor.kernel_names = ReadKernels(extractor.dump)

\* a dump with a header row and a kernel in the Sections block and a header
\* row in the symbol table
C17_Witness ==
    /\ extractor.pc = "returned"
    /\ extractor.kernel_names = {"k1"}
    /\ Len(extractor.out.symtable_output) = 1
    /\ Len(extractor.out.section_header_output) = 2

\* C18: no line of a dump makes extract_cubin_kernels fail: rows with too
\* few fields and missing blocks are skipped.
C18_MalformedLinesAreSkipped == extractor.pc # "panicked"

-----------------------------------------------------------------------------
(* Properties of the reconstructor *)

\* C19: after new(src, dst) and rewrite(spans) the destination has the
\* length of the source, 0x01 at every offset inside a span and the byte of
\* the source at every other offset, and the source file is as it was.
C19_RewriteFrame ==
    recon.pc = "rewritten" =>
        /\ Len(recon.files[recon.dst]) = Len(recon.source)
        /\ \A i \in 0..(Len(recon.source) - 1) :
              recon.files[recon.dst][i + 1] =
                 IF i \in AllOffsets(recon.spans) THEN 1 ELSE recon.source[i + 1]
        /\ recon.files[recon.src] = recon.source

-----------------------------------------------------------------------------
(* Properties of the supervisor's loop *)

\* every process of the tree has ended with its supervisor seeing the end
AllEndedInSight ==
    /\ procs # <<>>
    /\ \A p \in DOMAIN procs : threads[p].pc = "done"

\* C25: a supervisor whose tracee is reported Exited, or Signaled by SIGKILL
\* or SIGTERM, has left its loop: its Sender is dropped, it traces nothing
\* and it takes no further step; once every process of the tree has ended
\* this way the collector leaves its receive loop.
C25_TerminationEndsCollector ==
    /\ [](\A t \in DOMAIN threads :
             threads[t].pc = "done" =>
                /\ ~threads[t].sender
                /\ procs[t].state = "exited"
                /\ \A p \in DOMAIN procs : procs[p].tracer # t)
    /\ [][\A t \in DOMAIN threads :
             threads[t].pc = "done" => threads'[t] = threads[t]]_vars
    /\ (AllEndedInSight ~> collector.pc \in {"read_log", "done"})

\* a tree of two processes, both ended in the sight of their supervisors,
\* and the collector past its loop
C25_Witness ==
    /\ Len(procs) >= 2
    /\ AllEndedInSight
    /\ collector.pc = "done"

\* C26: a supervisor that has seen its tracee end, in whatever way, is not
\* in its loop any more: it is never about to call ptrace::cont or waitpid
\* for the pid that is gone.
C26_NoRequestAfterTermination ==
    \A t \in DOMAIN threads :
        procs[t].state = "exited" /\ procs[t].tracer = t =>
            threads[t].pc \notin {"cont", "wait"}


IsPrefix(s, t) == Len(s) <= Len(t) /\ s = SubSeq(t, 1, Len(s))

\* the steps of the handling of a fork event, in the order of the statement
ForkProtocol ==
    <<"getevent", "waitpid", "detach", "spawn",
      "attach", "waitpid", "setoptions", "maps", "hook", "cont">>

\* C21: for a process born of a fork, clone or vfork event the steps taken
\* are, in this order: the parent's supervisor obtains the pid, waits for the
\* initial stop, detaches; one supervisor thread is spawned; it attaches,
\* sets the options, finds the base of the loader, writes 0xCC at the hook;
\* and only then comes the first ptrace::cont of the process.  The thread of
\* the process exists exactly when the one spawn was taken, and a supervisor
\* that is handling the event of the process has not taken it yet.
C21_ForkProtocolOrder ==
    \A c \in DOMAIN procs :
        procs[c].steps[1] = "getevent" =>
            /\ IsPrefix(procs[c].steps, ForkProtocol)
            /\ threads[c].pc # "unborn" <=> Len(procs[c].steps) >= 4
            /\ \A t \in DOMAIN threads :
                  threads[t].child = c => Len(procs[c].steps) < 4

\* a forked process that was continued by its own supervisor
C21_Witness ==
    \E c \in DOMAIN procs :
        /\ procs[c].steps = ForkProtocol
        /\ threads[c].pc = "wait"


\* the messages sent since the last status was reported
SentAtStop == SubSeq(chan, Sup.mark + 1, Len(chan))

\* the SIGTRAP stop is at the hook the supervisor holds
AtHook == Tracee.rip - 1 = Sup.dl_debug_state_abs_addr

\* C22: when the handling of a SIGTRAP stop is over, the supervisor has sent
\* the l_name of every node of the link map, once each and in the order of
\* the chain, if the stop was at the current hook with r_state CONSISTENT,
\* and nothing otherwise.
C22_HookStopSendsLinkMap ==
    dom = "supervisor" /\ Sup.pc = "cont" /\ Tracee.status = Stopped("SIGTRAP") =>
        SentAtStop =
            IF AtHook /\ Tracee.r_debug.value.r_state = RT_CONSISTENT
            THEN Tracee.r_debug.value.r_map
            ELSE <<>>

\* a stop at the hook with a chain of two nodes, both names sent in order
C22_Witness ==
    /\ dom = "supervisor"
    /\ Sup.pc = "cont"
    /\ Tracee.status = Stopped("SIGTRAP")
    /\ AtHook
    /\ SentAtStop = <<EmptyName, Libcuda>>

\* the supervisor is where the tracee can be continued or report a stop
\* other than the exec that is still to be handled
Armed ==
    \/ Sup.pc \in {"cont", "wait"}
    \/ Sup.pc = "match" /\ Tracee.status # PtraceEvent("PTRACE_EVENT_EXEC")

\* C23: from the end of the handling of an exec event on, so before the
\* tracee is continued and at every later SIGTRAP, the two addresses of the
\* supervisor are the symbol addresses plus the base of the loader in the
\* maps read after the exec, and the byte at the hook is 0xCC.
C23_ExecRearmsHook ==
    dom = "supervisor" /\ Armed /\ Tracee.execs > 0 =>
        /\ Tracee.loader # None
        /\ Sup.dl_debug_state_abs_addr = dl_debug_state_addr + Tracee.loader.value
        /\ Sup.r_debug_abs_addr = r_debug_addr + Tracee.loader.value
        /\ Sup.dl_debug_state_abs_addr \in Tracee.int3

\* after an exec that moved the loader, a SIGTRAP at the new hook
C23_Witness ==
    /\ dom = "supervisor"
    /\ Sup.pc = "match"
    /\ Tracee.execs > 0
    /\ Tracee.status = Stopped("SIGTRAP")
    /\ AtHook
    /\ Tracee.int3 = {dl_debug_state_addr + 8192}

\* C24 as stated: after a stop by any signal, SIGTRAP included, the next
\* ptrace::cont delivers that signal; after a ptrace event stop it delivers
\* none.
C24_ContDeliversStopSignal ==
    dom = "supervisor" /\ Sup.pc = "wait" /\ Tracee.status \in StopStatuses =>
        Tracee.delivered =
            IF Tracee.status.kind = "Stopped" THEN Some(Tracee.status.sig) ELSE None

\* C24, amended: after a stop by a signal other than SIGTRAP the next
\* ptrace::cont delivers that signal; after a SIGTRAP stop and after a
\* ptrace event stop it delivers none.
C24_ContDeliversNonTrapSignal ==
    dom = "supervisor" /\ Sup.pc = "wait" /\ Tracee.status \in StopStatuses =>
        Tracee.delivered =
            IF Tracee.status.kind = "Stopped" /\ Tracee.status.sig # "SIGTRAP"
            THEN Some(Tracee.status.sig)
            ELSE None

\* the tracee continued with the signal that stopped it
C24_Witness ==
    /\ dom = "supervisor"
    /\ Sup.pc = "wait"
    /\ Tracee.status = Stopped("SIGUSR1")
    /\ Tracee.delivered = Some("SIGUSR1")


-----------------------------------------------------------------------------
(* Properties of read_string *)

\* the offsets of the zero bytes of the memory, counted from the address
ZeroOffsets(memory) == {k - 1 : k \in {j \in 1..Len(memory) : memory[j] = 0}}

\* C29: read_string returns the bytes from the address up to, not including,
\* the first zero byte, and has read at no address beyond that zero byte.
C29_StopsAtFirstNul ==
    dom = "read_string" /\ threads[1].pc = "returned" =>
        /\ ZeroOffsets(procs[1].memory) # {}
        /\ threads[1].result =
              SubSeq(procs[1].memory, 1, SetMin(ZeroOffsets(procs[1].memory)))
        /\ \A a \in threads[1].reads : a <= SetMin(ZeroOffsets(procs[1].memory))


-----------------------------------------------------------------------------
(* Properties of the parser's cursors *)

\* offset + size of an element: what the element cursor advances by
Advance(element) == element.header.offset + element.header.size

\* C27: every advance of the element cursor and every advance of the region
\* cursor is strictly positive, so that both cursors strictly increase and
\* GPUCode::new terminates.
C27_AdvancesStrictlyPositive ==
    /\ \A k \in 1..Len(elements) : Advance(elements[k]) > 0
    /\ \A i \in 1..Len(regions) :
          /\ RegionSize(regions[i]) > 0
          /\ \A k \in 1..Len(regions[i].elements) : Advance(regions[i].elements[k]) > 0

\* the cursor, counted from the first byte of the payload, after the first
\* k elements of a region
PayloadCursor(region, k) ==
    SumSeq([j \in 1..k |-> Advance(region.elements[j])])

\* C28: the element headers of a region are parsed at exactly the cursors,
\* counted from payload byte 0 and advancing by offset + size, that lie
\* inside the payload: every parsed cursor is below fat_size and the cursor
\* the loop ended at is not.
C28_ParsesCursorsInsidePayload ==
    \A i \in 1..Len(regions) :
        /\ \A k \in 1..Len(regions[i].elements) :
              PayloadCursor(regions[i], k - 1) < regions[i].header.fat_size
        /\ PayloadCursor(regions[i], Len(regions[i].elements))
              >= regions[i].header.fat_size

=============================================================================
